---- MODULE Spec2Model ----
(***************************************************************************)
(* Model of the BhashaSetu web crawl engine (src/ingestion/webcrawl):      *)
(* Crawler / CrawlContext / Page (crawler.py, page.py), the visitor chain  *)
(* (visitors.py), the sentence processors (strategies.py), the SQLite     *)
(* store (repositories.py) and the backfill script that is run on the      *)
(* store of a finished run (scripts/backfill_and_mark_duplicates.py).      *)
(*                                                                         *)
(* Abstractions:                                                           *)
(*  - a URL is a sequence of tokens (scheme token, "//", host, path);      *)
(*    urlparse is modelled on these tokens;                                *)
(*  - a text is a sequence of one-character strings;                       *)
(*  - the SHA-1 digest is taken to be collision free and is represented    *)
(*    by the normalized text it is computed from;                          *)
(*  - an HTTP GET succeeds or fails nondeterministically; a successful     *)
(*    GET returns the document the site serves at that URL;                *)
(*  - SQLite's "SELECT ... LIMIT 1" without ORDER BY returns the row with  *)
(*    the lowest rowid (table scan and index scan both visit rowids in     *)
(*    ascending order).                                                    *)
(***************************************************************************)
EXTENDS Integers, Sequences, FiniteSets, TLC

\* ------------------------------------------------------------------ bounds
\* largest value of config["max_pages"] explored
MaxPagesCfg == 3
\* largest value of config["min_sentences"] explored
MinSentencesCfg == 2
\* largest value of config["depth"] explored
MaxDepthCfg == 2
\* the value of config["max_total_links"] in every run
MaxTotalLinksCfg == 2

\* ------------------------------------------------------------------ URLs
SchemeTokens == {"https:", "http:", "mailto:"}

RootUrl  == <<"https:", "//", "example.test", "/">>
UrlA     == <<"https:", "//", "example.test", "/a">>
UrlB     == <<"https:", "//", "example.test", "/b">>
UrlOther == <<"https:", "//", "other.test", "/">>
UrlRel   == <<"/c">>
\* a scheme-relative href: it starts with "/" and names an authority
UrlNoScheme == <<"//", "example.test", "/b">>
UrlMail  == <<"mailto:", "x@example.test">>

\* urlparse(u).scheme
UrlScheme(u) == IF Len(u) > 0 /\ u[1] \in SchemeTokens THEN u[1] ELSE ""

\* what urlparse leaves after the scheme
UrlRest(u) == IF UrlScheme(u) = "" THEN u ELSE Tail(u)

\* urlparse(u).netloc: the authority follows a leading "//"
Netloc(u) ==
    LET r == UrlRest(u)
    IN  IF Len(r) >= 2 /\ r[1] = "//" THEN r[2] ELSE ""

\* href.startswith("/")
StartsWithSlash(u) == Len(u) > 0 /\ u[1] \in {"//", "/", "/a", "/b", "/c"}

\* ------------------------------------------------------------------ texts
Whitespace == {" ", "\t"}

\* unicodedata.normalize("NFKC", .) on one character: the compatibility
\* characters of the alphabet (fullwidth letter, no-break space) are folded
NFKCChar(c) ==
    CASE c = "FULLWIDTH_A" -> "A"
      [] c = "NBSP"        -> " "
      [] OTHER             -> c

\* str.lower() on one character
LowerChar(c) ==
    CASE c = "A" -> "a"
      [] c = "B" -> "b"
      [] c = "C" -> "c"
      [] OTHER   -> c

\* unicodedata.normalize("NFKC", text)
NFKC(s) == [i \in 1..Len(s) |-> NFKCChar(s[i])]
\* str.lower()
Lower(s) == [i \in 1..Len(s) |-> LowerChar(s[i])]

RECURSIVE LStrip(_)
LStrip(s) == IF s # <<>> /\ Head(s) \in Whitespace THEN LStrip(Tail(s)) ELSE s

RECURSIVE RStrip(_)
RStrip(s) ==
    IF s # <<>> /\ s[Len(s)] \in Whitespace
    THEN RStrip(SubSeq(s, 1, Len(s) - 1)) ELSE s

\* str.strip()
Strip(s) == RStrip(LStrip(s))

\* re.sub(r"\s+", " ", .): every run of whitespace becomes one space
RECURSIVE CollapseWs(_)
CollapseWs(s) ==
    IF s = <<>> THEN <<>>
    ELSE IF Head(s) \in Whitespace
         THEN <<" ">> \o CollapseWs(LStrip(Tail(s)))
         ELSE <<Head(s)>> \o CollapseWs(Tail(s))

\* DBVisitor._normalize_text: NFKC, strip, lower, collapse whitespace
_normalize_text(text) ==
    CollapseWs(Lower(Strip(NFKC(text))))

\* DBVisitor._hash_text: SHA-1 of the normalized text (collision free: the
\* digest is represented by the text it was computed from)
_hash_text(text) == _normalize_text(text)

\* the sentences the site serves
T1 == <<"a", " ", "b">>
T2 == <<"A", " ", "b">>
T3 == <<"a", " ", "\t", "b">>
T4 == <<"c", "d">>

\* ------------------------------------------------------------------ site
\* The document an HTTP GET of a URL returns when it succeeds: the hrefs of
\* its <a> elements in document order and the sentences of its visible text
\* (the output of soup.get_text followed by the sentence splitter).
SiteDoc(u) ==
    CASE u = RootUrl -> [hrefs |-> <<UrlA, UrlOther, UrlMail, UrlB>>,
                         body  |-> <<T1, T4>>]
      [] u = UrlA    -> [hrefs |-> <<UrlRel, RootUrl, UrlB>>,
                         body  |-> <<T1, T1, T4>>]
      [] u = UrlB    -> [hrefs |-> <<UrlA, UrlNoScheme>>,
                         body  |-> <<T4, T2, T3>>]
      [] OTHER       -> [hrefs |-> <<>>, body |-> <<>>]

\* page.text before a fetch stored anything (None)
NoDoc == [hrefs |-> <<>>, body |-> <<>>]

\* ------------------------------------------------------------------ Page
\* Page(url, depth, is_root): the dataclass defaults; has_results says
\* whether the attribute processed_results has been attached
NewPage(url, depth, is_root) ==
    [url |-> url, depth |-> depth, is_root |-> is_root,
     text |-> NoDoc, has_text |-> FALSE,
     text_clean |-> <<>>, has_text_clean |-> FALSE,
     sentences |-> <<>>, sentence_statuses |-> <<>>,
     links |-> <<>>,
     flags |-> {},
     has_results |-> FALSE, processed_results |-> <<>>]

\* Page.should_skip: any of the four flags is truthy (flags holds the names
\* of the flags whose value is True)
SkipFlags == {"skip_processing", "excluded", "duplicate", "failed"}

\* fault variant of Page.should_skip: the flag duplicate is not looked at
should_skip_ignoring_duplicate(pg) ==
    pg.flags \cap (SkipFlags \ {"duplicate"}) # {}

should_skip(pg) == pg.flags \cap SkipFlags # {}

\* CrawlContext.log(self, msg) takes no keyword argument: a call that passes
\* level=... raises TypeError
LogRaises(with_level) == with_level

\* ------------------------------------------------------------------ store
\* NULL of the columns hash and duplicate_of
NullHash == <<"NULL">>
NullId == 0

\* init_db(conn) on a new file: the four tables, empty; staging_sentences
\* has the columns (id, link_id, sentence, status, created_at) only
init_db == [has_hash |-> FALSE, has_duplicate_of |-> FALSE,
            links |-> <<>>, sentences |-> <<>>,
            domain |-> <<>>, sentence_domain |-> <<>>]

\* ensure_schema(conn) of the backfill script: adds the columns hash and
\* duplicate_of when they are missing
ensure_schema(d) == [d EXCEPT !.has_hash = TRUE, !.has_duplicate_of = TRUE]

\* DBVisitor._table_has_column("staging_sentences", column)
_table_has_column(d, column) ==
    CASE column = "hash"         -> d.has_hash
      [] column = "duplicate_of" -> d.has_duplicate_of
      [] OTHER                   -> column \in {"id", "link_id", "sentence", "status"}

Min(S) == CHOOSE x \in S : \A y \in S : x <= y

\* SELECT 1 FROM links WHERE url=? LIMIT 1
_url_exists(d, url) == \E i \in 1..Len(d.links) : d.links[i] = url

\* fault variant of LinkRepository.insert: a plain INSERT into a table
\* without the UNIQUE constraint on url
LinkInsertAgain(d, url) == [d EXCEPT !.links = Append(@, url)]

\* LinkRepository.insert: INSERT OR IGNORE, then SELECT id
LinkInsert(d, url) ==
    IF _url_exists(d, url) THEN d ELSE [d EXCEPT !.links = Append(@, url)]
LinkId(d, url) == Min({i \in 1..Len(d.links) : d.links[i] = url})

\* DBVisitor._insert_sentence_row: hash and duplicate_of are written only
\* when the column exists and a value is given; the new id is lastrowid
_insert_sentence_row(d, link_id, sentence, status, hash_val, duplicate_of) ==
    [d EXCEPT !.sentences = Append(@,
        [link_id |-> link_id, sentence |-> sentence, status |-> status,
         hash |-> IF _table_has_column(d, "hash") THEN hash_val ELSE NullHash,
         duplicate_of |-> IF _table_has_column(d, "duplicate_of")
                          THEN duplicate_of ELSE NullId])]
LastRowId(d) == Len(d.sentences)

\* SELECT id FROM staging_sentences WHERE hash=? LIMIT 1 (NullId: no row)
SelectByHash(d, h) ==
    LET S == {i \in 1..Len(d.sentences) : d.sentences[i].hash = h}
    IN  IF S = {} THEN NullId ELSE Min(S)

\* SELECT id FROM staging_sentences WHERE sentence=? LIMIT 1
SelectBySentence(d, s) ==
    LET S == {i \in 1..Len(d.sentences) : d.sentences[i].sentence = s}
    IN  IF S = {} THEN NullId ELSE Min(S)

\* DomainRepository.get_or_create
DomainIdOf(d, code) ==
    LET S == {i \in 1..Len(d.domain) : d.domain[i].code = code}
    IN  IF S = {} THEN NullId ELSE Min(S)
DomainGetOrCreate(d, code, name) ==
    IF DomainIdOf(d, code) # NullId THEN d
    ELSE [d EXCEPT !.domain = Append(@, [code |-> code, name |-> name])]

\* SentenceDomainRepository.insert: INSERT OR REPLACE on the unique
\* sentence_id
SentenceDomainInsert(d, sentence_id, domain_id, confidence, source) ==
    LET keep(r) == r.sentence_id # sentence_id
    IN  [d EXCEPT !.sentence_domain =
            Append(SelectSeq(@, keep),
                   [sentence_id |-> sentence_id, domain_id |-> domain_id,
                    confidence |-> confidence, source |-> source])]

\* ------------------------------------------------------------------ backfill script
\* normalize_text and compute_hash of backfill_and_mark_duplicates.py
normalize_text(text) == CollapseWs(Lower(Strip(NFKC(text))))
compute_hash(text) == normalize_text(text)

\* step 1 of main: every row whose hash is NULL and whose sentence is not
\* empty gets the hash of its sentence
BackfillHashes(d) ==
    [d EXCEPT !.sentences =
        [i \in 1..Len(d.sentences) |->
            IF d.sentences[i].hash = NullHash /\ d.sentences[i].sentence # <<>>
            THEN [d.sentences[i] EXCEPT !.hash = compute_hash(d.sentences[i].sentence)]
            ELSE d.sentences[i]]]

\* "SELECT id ... WHERE hash=? ORDER BY id ASC" for the hash of row i
IdsWithHashOf(d, i) ==
    {j \in 1..Len(d.sentences) : d.sentences[j].hash = d.sentences[i].hash}

\* fault variant of step 2 of main: ORDER BY id DESC, the last row of a
\* group is taken for the original
MarkDuplicatesLastWins(d) ==
    [d EXCEPT !.sentences =
        [i \in 1..Len(d.sentences) |->
            IF /\ d.sentences[i].hash # NullHash
               /\ Cardinality(IdsWithHashOf(d, i)) > 1
               /\ i # -Min({-j : j \in IdsWithHashOf(d, i)})
            THEN [d.sentences[i] EXCEPT !.status = "duplicate",
                                        !.duplicate_of = -Min({-j : j \in IdsWithHashOf(d, i)})]
            ELSE d.sentences[i]]]

\* step 2 of main: in every group of rows sharing a non-NULL hash, each row
\* after the first is marked duplicate of the first
MarkDuplicates(d) ==
    [d EXCEPT !.sentences =
        [i \in 1..Len(d.sentences) |->
            IF /\ d.sentences[i].hash # NullHash
               /\ Cardinality(IdsWithHashOf(d, i)) > 1
               /\ i # Min(IdsWithHashOf(d, i))
            THEN [d.sentences[i] EXCEPT !.status = "duplicate",
                                        !.duplicate_of = Min(IdsWithHashOf(d, i))]
            ELSE d.sentences[i]]]

\* main(db_path)
backfill_main(d) == MarkDuplicates(BackfillHashes(ensure_schema(d)))

\* ------------------------------------------------------------------ processors
\* metadata dictionaries are functions from keys to strings
EmptyMeta == [k \in {} |-> ""]
\* dict.update
MetaUpdate(a, b) ==
    [k \in (DOMAIN a) \cup (DOMAIN b) |-> IF k \in DOMAIN b THEN b[k] ELSE a[k]]
\* dict.get(key, default)
MetaGet(m, k, default) == IF k \in DOMAIN m THEN m[k] ELSE default

\* ProcessorResult(text=...): status defaults to "new", reject to False,
\* metadata to None (an empty dictionary here: both are falsy)
ProcessorResult(text) ==
    [text |-> text, status |-> "new", reject |-> FALSE, metadata |-> EmptyMeta,
     is_result |-> TRUE]

\* isinstance(result, ProcessorResult)
IsProcessorResult(result) == result.is_result

\* the patterns configured for PatternRejector (a pattern is one letter,
\* searched for case-insensitively)
RejectPatterns == <<"c">>
\* the keyword table DomainClassifier loads, in its iteration order
DomainRules ==
    << [code |-> "sci",  name |-> "Science",       keywords |-> <<"b">>],
       [code |-> "misc", name |-> "Miscellaneous", keywords |-> <<>>] >>

Contains(s, c) == \E i \in 1..Len(s) : s[i] = c

\* SkipRootText.process (skip=True)
SkipRootText(sentence, is_root) ==
    [ProcessorResult(sentence) EXCEPT !.reject = is_root]

\* PatternRejector.process: tags the sentence, never rejects it
PatternRejector(sentence) ==
    LET hit == \E i \in 1..Len(RejectPatterns) :
                  Contains(Lower(sentence), LowerChar(RejectPatterns[i]))
    IN  [ProcessorResult(sentence) EXCEPT !.status = IF hit THEN "rejected" ELSE @]

\* DomainClassifier._load_rules: the table of the JSON file with every
\* keyword lower-cased; a table that cannot be loaded is the empty table
_load_rules(table) ==
    [i \in 1..Len(table) |->
        [code |-> table[i].code, name |-> table[i].name,
         keywords |-> Lower(table[i].keywords)]]

\* the metadata dictionaries DomainClassifier.process builds
DomainMeta(code, name, conf) ==
    [k \in {"domain_code", "domain_name", "source", "confidence"} |->
        CASE k = "domain_code" -> code
          [] k = "domain_name" -> name
          [] k = "source"      -> "rule_based"
          [] OTHER             -> conf]

\* self.rules.get("misc", {"name": "Miscellaneous"})["name"]
MiscName(rules) ==
    IF \E i \in 1..Len(rules) : rules[i].code = "misc"
    THEN rules[CHOOSE i \in 1..Len(rules) : rules[i].code = "misc"].name
    ELSE "Miscellaneous"

\* DomainClassifier.process with self.rules = rules: the first rule with a
\* keyword in the lower-cased sentence, else misc with confidence 0.0; with
\* no rules misc without a confidence
DomainClassifier_process(rules, sentence) ==
    LET s_lower == Lower(sentence)
        match(i) == \E k \in 1..Len(rules[i].keywords) :
                       Contains(s_lower, rules[i].keywords[k])
        M == {i \in 1..Len(rules) : match(i)}
    IN  IF rules = <<>>
        THEN [ProcessorResult(sentence) EXCEPT !.metadata =
                [k \in {"domain_code", "domain_name", "source"} |->
                    CASE k = "domain_code" -> "misc"
                      [] k = "domain_name" -> "Miscellaneous"
                      [] OTHER             -> "rule_based"]]
        ELSE IF M # {}
        THEN LET i == CHOOSE x \in M : \A y \in M : x <= y
             IN  [ProcessorResult(sentence) EXCEPT !.metadata =
                    DomainMeta(rules[i].code, rules[i].name, "1.0")]
        ELSE [ProcessorResult(sentence) EXCEPT !.metadata =
                    DomainMeta("misc", MiscName(rules), "0.0")]

\* DomainClassifier.process of the classifier of the run
DomainClassifier(sentence) == DomainClassifier_process(DomainRules, sentence)

\* the quote characters of BalancedQuotesFilter, one token per character:
\* the straight quote first, then the left and right typographic quotes
DOUBLE_QUOTES == <<"\"", "ldquo", "rdquo">>
SINGLE_QUOTES == <<"'", "lsquo", "rsquo">>

\* fault variant of str.rfind: the index of the first occurrence (str.find)
find(s, ch) ==
    IF \E i \in 1..Len(s) : s[i] = ch
    THEN Min({i \in 1..Len(s) : s[i] = ch}) - 1
    ELSE -1

\* str.rfind(ch): the 0-based index of the last occurrence, -1 when none
rfind(s, ch) ==
    IF \E i \in 1..Len(s) : s[i] = ch
    THEN -Min({-i : i \in {j \in 1..Len(s) : s[j] = ch}}) - 1
    ELSE -1

\* the loop "for char in QUOTES: ... if rfind_index > last_index", begun
\* with last_index
RECURSIVE LastQuoteIndex(_, _, _)
LastQuoteIndex(s, chars, last_index) ==
    IF chars = <<>> THEN last_index
    ELSE LastQuoteIndex(s, Tail(chars),
                        IF rfind(s, Head(chars)) > last_index
                        THEN rfind(s, Head(chars)) ELSE last_index)

\* one of the two blocks of BalancedQuotesFilter.process: the typographic
\* quotes are replaced by the straight one and counted; when the count is
\* odd the character at the last index of any quote of the group is cut out
FixQuoteGroup(s, chars) ==
    LET normalized == [i \in 1..Len(s) |->
                          IF s[i] \in {chars[2], chars[3]} THEN chars[1] ELSE s[i]]
        count == Cardinality({i \in 1..Len(s) : normalized[i] = chars[1]})
        last_index == LastQuoteIndex(s, chars, -1)
    IN  IF count % 2 # 0 /\ last_index # -1
        THEN SubSeq(s, 1, last_index) \o SubSeq(s, last_index + 2, Len(s))
        ELSE s

\* BalancedQuotesFilter.process
BalancedQuotesFilter(sentence) ==
    [ProcessorResult(sentence) EXCEPT
        !.text = Strip(FixQuoteGroup(FixQuoteGroup(sentence, DOUBLE_QUOTES),
                                     SINGLE_QUOTES))]

\* TruncatedSentenceFilter.process: re.search(r'\.\s*\.', sentence) rejects
\* a sentence with two dots that only whitespace separates
TruncatedSentenceFilter(sentence) ==
    [ProcessorResult(sentence) EXCEPT !.reject =
        \E i, j \in 1..Len(sentence) :
            /\ i < j
            /\ sentence[i] = "." /\ sentence[j] = "."
            /\ \A k \in (i + 1)..(j - 1) : sentence[k] \in Whitespace]

\* a processor that breaks the contract of SentenceProcessor.process: it
\* returns the bare text, a value that is no ProcessorResult
NotAResultProcessor(sentence) ==
    [ProcessorResult(sentence) EXCEPT !.is_result = FALSE]

\* p.process(current_text, metadata={"url": ..., "is_root": ...})
Process(p, sentence, is_root) ==
    CASE p = "SkipRootText"        -> SkipRootText(sentence, is_root)
      [] p = "PatternRejector"     -> PatternRejector(sentence)
      [] p = "DomainClassifier"    -> DomainClassifier(sentence)
      [] p = "NotAResultProcessor" -> NotAResultProcessor(sentence)
      [] p = "BalancedQuotesFilter" -> BalancedQuotesFilter(sentence)
      [] p = "TruncatedSentenceFilter" -> TruncatedSentenceFilter(sentence)

\* fault variant of the inner loop: a result tagged rejected does not end
\* the loop, the later processors still run
AdoptResultNoBreak(acc, result) ==
    IF ~IsProcessorResult(result)
    THEN [acc EXCEPT !.type_error = TRUE, !.stop = TRUE]
    ELSE IF result.reject
    THEN [acc EXCEPT !.rejected = TRUE, !.stop = TRUE]
    ELSE [acc EXCEPT !.text = result.text,
                     !.status = IF result.status # "" THEN result.status ELSE @,
                     !.metadata = MetaUpdate(@, result.metadata)]

\* One iteration of the inner loop of SentenceProcessorVisitor.on_page_process:
\* what the loop does with the result of one processor. acc is
\* [rejected, stop, type_error, text, status, metadata]; stop: the loop was
\* left by break or by the TypeError raised for a result of the wrong type.
AdoptResult(acc, result) ==
    IF ~IsProcessorResult(result)
    THEN [acc EXCEPT !.type_error = TRUE, !.stop = TRUE]
    ELSE IF result.reject
    THEN [acc EXCEPT !.rejected = TRUE, !.stop = TRUE]
    ELSE [acc EXCEPT !.text = result.text,
                     !.status = IF result.status # "" THEN result.status ELSE @,
                     !.metadata = MetaUpdate(@, result.metadata),
                     !.stop = (result.status = "rejected")]

\* the inner loop over the processors for one sentence
RECURSIVE RunProcessors(_, _, _)
RunProcessors(ps, acc, is_root) ==
    IF ps = <<>> \/ acc.stop THEN acc
    ELSE RunProcessors(Tail(ps),
                       AdoptResult(acc, Process(Head(ps), acc.text, is_root)),
                       is_root)

\* fault variant of "if not rejected and current_text": the text is not
\* tested
EmitResultEvenEmpty(acc) ==
    IF ~acc.rejected
    THEN << [text |-> acc.text,
             status |-> IF acc.status # "" THEN acc.status ELSE "new",
             metadata |-> acc.metadata] >>
    ELSE <<>>

\* "if not rejected and current_text": the result appended for a sentence
EmitResult(acc) ==
    IF ~acc.rejected /\ acc.text # <<>>
    THEN << [text |-> acc.text,
             status |-> IF acc.status # "" THEN acc.status ELSE "new",
             metadata |-> acc.metadata] >>
    ELSE <<>>

\* the locals of the outer loop at the start of a sentence
SentenceStart(s) ==
    [rejected |-> FALSE, stop |-> FALSE, type_error |-> FALSE, text |-> s,
     status |-> "", metadata |-> EmptyMeta]

\* the outer loop: the accepted results of the sentences of a text
RECURSIVE ProcessSentences(_, _, _)
ProcessSentences(ps, sents, is_root) ==
    IF sents = <<>> THEN <<>>
    ELSE EmitResult(RunProcessors(ps, SentenceStart(Head(sents)), is_root))
         \o ProcessSentences(ps, Tail(sents), is_root)

\* "raise TypeError(... must return ProcessorResult)": some sentence of the
\* text reaches a processor whose result is of the wrong type
ProcessorsRaise(ps, sents, is_root) ==
    \E i \in 1..Len(sents) :
        RunProcessors(ps, SentenceStart(sents[i]), is_root).type_error

\* ------------------------------------------------------------------ visitors
\* IMPLICIT_PAGE_ATTRS
IMPLICIT_PAGE_ATTRS ==
    {"page.url", "page.flags", "page.is_root", "page.depth", "page.text"}

\* the class attribute consumes of each visitor
Consumes(v) ==
    CASE v = "URLTrackerVisitor"        -> <<"page.url">>
      [] v = "ExclusionVisitor"         -> <<"page.url">>
      [] v = "FetcherVisitor"           -> <<"page.url", "page.flags">>
      [] v = "ParserVisitor"            -> <<"page.text">>
      [] v = "SentenceProcessorVisitor" -> <<"page.text_clean">>
      [] v = "DBVisitor"                -> <<"page.url", "page.flags">>
      [] OTHER                          -> <<>>

\* the class attribute produces of each visitor
Produces(v) ==
    CASE v = "URLTrackerVisitor"        -> <<"page.flags.visited">>
      [] v = "ExclusionVisitor"         -> <<"page.flags.excluded">>
      [] v = "FetcherVisitor"           -> <<"page.text">>
      [] v = "ParserVisitor"            -> <<"page.text_clean", "page.links">>
      [] v = "SentenceProcessorVisitor" ->
            <<"page.processed_results", "page.sentences", "page.sentence_statuses">>
      [] v = "DBVisitor"                -> <<"page.flags.already_in_db">>
      [] OTHER                          -> <<>>

SeqToSet(s) == {s[i] : i \in 1..Len(s)}

\* the loop of VisitorChainValidator.on_crawl_start over a visitor list:
\* TRUE when no visitor is missing an input (no RuntimeError is raised)
RECURSIVE ValidateFrom(_, _)
ValidateFrom(vs, produced) ==
    IF vs = <<>> THEN TRUE
    ELSE LET missing == {c \in SeqToSet(Consumes(Head(vs))) :
                            c \notin produced /\ c \notin IMPLICIT_PAGE_ATTRS}
         IN  missing = {} /\
             ValidateFrom(Tail(vs), produced \cup SeqToSet(Produces(Head(vs))))
ChainValid(vs) == ValidateFrom(vs, IMPLICIT_PAGE_ATTRS)

\* the chains a run is configured with: the typical chain, and one where
\* the sentence stage stands before the parser that produces its input
TypicalChain ==
    <<"VisitorChainValidator", "URLTrackerVisitor", "ExclusionVisitor",
      "DBVisitor", "FetcherVisitor", "ParserVisitor",
      "SentenceProcessorVisitor", "StatsVisitor">>
MisorderedChain ==
    <<"VisitorChainValidator", "URLTrackerVisitor", "ExclusionVisitor",
      "DBVisitor", "FetcherVisitor", "SentenceProcessorVisitor",
      "ParserVisitor", "StatsVisitor">>
\* a chain whose persistence stage stands behind the sentence stage and
\* whose URL tracker stands behind the fetcher, the parser and both of them
TrackerLastChain ==
    <<"VisitorChainValidator", "ExclusionVisitor", "FetcherVisitor",
      "ParserVisitor", "SentenceProcessorVisitor", "DBVisitor",
      "URLTrackerVisitor", "StatsVisitor">>
Chains == {TypicalChain, MisorderedChain}

\* getattr(context, "visitors", []): CrawlContext defines no attribute
\* visitors and Crawler.run sets none, so the default is what is read
ContextVisitors(chain) == <<>>

\* Visitor._has_attr(page, dotted_attr) for the attributes the visitors
\* consume: every field of the dataclass exists from construction
_has_attr(pg, attr) ==
    \/ attr \in {"page.url", "page.depth", "page.is_root", "page.text",
                 "page.text_clean", "page.sentences", "page.sentence_statuses",
                 "page.links", "page.flags", "page.metadata"}
    \/ attr = "page.processed_results" /\ pg.has_results

\* auto_validate: validate_page_state raises RuntimeError when a consumed
\* attribute is missing (the meta visitors opt out)
AutoValidateFails(v, pg) ==
    /\ v \notin {"VisitorChainValidator", "StatsVisitor"}
    /\ \E a \in SeqToSet(Consumes(v)) : ~_has_attr(pg, a)

\* A handler maps an environment record e to the environment after it:
\*   page, visited, stats, db   the context and the store
\*   raised                     the handler ended by raising an exception
\*   fetches                    the URLs an HTTP GET was issued for
\*   summary                    the summary has been logged
Raise(e) == [e EXCEPT !.raised = TRUE]

\* VisitorChainValidator.on_crawl_start
Validator_on_crawl_start(e, chain) ==
    IF ChainValid(ContextVisitors(chain)) THEN e ELSE Raise(e)

\* fault variant of StatsVisitor.on_crawl_end: the summary is logged only
\* for a run without errors
Stats_on_crawl_end_if_no_errors(e) ==
    IF e.stats.errors = 0 THEN [e EXCEPT !.summary = TRUE] ELSE e

\* StatsVisitor.on_crawl_end
Stats_on_crawl_end(e) == [e EXCEPT !.summary = TRUE]

\* URLTrackerVisitor.on_page_start
URLTracker_on_page_start(e) ==
    IF e.page.url = <<>> THEN e
    ELSE IF e.page.url \in e.visited
    THEN [e EXCEPT !.page.flags = @ \cup {"duplicate"}]
    ELSE [e EXCEPT !.visited = @ \cup {e.page.url},
                   !.page.flags = @ \cup {"visited"}]

\* ExclusionVisitor.on_page_start: a pattern is a path token, found in the
\* URL when the URL holds that token
Exclusion_on_page_start(e, exclude_patterns) ==
    IF \E i \in 1..Len(exclude_patterns) : Contains(e.page.url, exclude_patterns[i])
    THEN [e EXCEPT !.page.flags = @ \cup {"excluded"}]
    ELSE e

\* fault variant of DBVisitor.on_page_start: the is_root test is missing
DB_on_page_start_no_root_check(e) ==
    IF _url_exists(e.db, e.page.url)
    THEN [e EXCEPT !.page.flags = @ \cup {"already_in_db", "skip_processing"}]
    ELSE e

\* DBVisitor.on_page_start
DB_on_page_start(e) ==
    IF e.page.is_root THEN e
    ELSE IF _url_exists(e.db, e.page.url)
    THEN [e EXCEPT !.page.flags = @ \cup {"already_in_db", "skip_processing"}]
    ELSE e

\* fault variant of FetcherVisitor.on_page_process: a failed GET is issued
\* a second time before the page is marked failed
Fetcher_on_page_process_retry(e, ok) ==
    IF should_skip(e.page)
    THEN IF LogRaises(TRUE) THEN Raise(e) ELSE e
    ELSE IF ok /\ UrlScheme(e.page.url) \in {"http:", "https:"}
    THEN [e EXCEPT !.fetches = Append(@, e.page.url),
                   !.page.text = SiteDoc(e.page.url),
                   !.page.has_text = TRUE]
    ELSE [e EXCEPT !.fetches = Append(Append(@, e.page.url), e.page.url),
                   !.page.flags = @ \cup {"failed"},
                   !.stats.errors = @ + 1]

\* FetcherVisitor.on_page_process; ok: the GET returned a 2xx response.
\* requests.get raises for a URL without an http(s) scheme.
Fetcher_on_page_process(e, ok) ==
    IF should_skip(e.page)
    THEN IF LogRaises(TRUE) THEN Raise(e) ELSE e
    ELSE LET e1 == [e EXCEPT !.fetches = Append(@, e.page.url)]
         IN  IF ok /\ UrlScheme(e.page.url) \in {"http:", "https:"}
             THEN [e1 EXCEPT !.page.text = SiteDoc(e.page.url),
                             !.page.has_text = TRUE]
             ELSE [e1 EXCEPT !.page.flags = @ \cup {"failed"},
                             !.stats.errors = @ + 1]

\* ParserVisitor.on_page_process
Parser_on_page_process(e) ==
    IF should_skip(e.page) \/ ~e.page.has_text \/ e.page.text = NoDoc
    THEN IF LogRaises(TRUE) THEN Raise(e) ELSE e
    ELSE LET keep(h) == UrlScheme(h) \in {"http:", "https:"} \/ StartsWithSlash(h)
         IN  [e EXCEPT !.page.text_clean = e.page.text.body,
                       !.page.has_text_clean = TRUE,
                       !.page.links = SelectSeq(e.page.text.hrefs, keep)]

\* the tail of SentenceProcessorVisitor.on_page_process: the results are
\* attached to the page and counted
AttachResults(e, results) ==
    [e EXCEPT !.page.has_results = TRUE,
              !.page.processed_results = results,
              !.page.sentences = [i \in 1..Len(results) |-> results[i].text],
              !.page.sentence_statuses = [i \in 1..Len(results) |-> results[i].status],
              !.stats.sentences = @ + Len(results)]

\* SentenceProcessorVisitor.on_page_process: the skip branch logs with
\* level=... before it attaches the empty processed_results
SentenceProcessor_on_page_process(e, processors) ==
    IF should_skip(e.page) \/ ~e.page.has_text_clean \/ e.page.text_clean = <<>>
    THEN IF LogRaises(TRUE) THEN Raise(e)
         ELSE [e EXCEPT !.page.has_results = TRUE, !.page.processed_results = <<>>]
    ELSE IF ProcessorsRaise(processors, e.page.text_clean, e.page.is_root)
    THEN Raise(e)
    ELSE AttachResults(e, ProcessSentences(processors, e.page.text_clean,
                                           e.page.is_root))

\* "domain mapping (only for non-duplicate inserts)" of DBVisitor.on_page_end
\* for the row new_id
MapDomainRow(d, new_id, domain_code, meta) ==
    SentenceDomainInsert(d, new_id, DomainIdOf(d, domain_code),
                         MetaGet(meta, "confidence", "NULL"),
                         MetaGet(meta, "source", "rule_based"))
MapDomain(d, new_id, meta) ==
    MapDomainRow(DomainGetOrCreate(d, MetaGet(meta, "domain_code", "misc"),
                                   MetaGet(meta, "domain_name", "Miscellaneous")),
                 new_id, MetaGet(meta, "domain_code", "misc"), meta)

\* fault variant of the non-duplicate branch: the domain mapping is missing
InsertNewUnmapped(d, link_id, s, st, h, meta) ==
    _insert_sentence_row(d, link_id, s, st, h, NullId)

\* the non-duplicate branch: the row is inserted with the pipeline's status
\* and mapped to its domain
InsertNew(d, link_id, s, st, h, meta) ==
    MapDomain(_insert_sentence_row(d, link_id, s, st, h, NullId),
              Len(d.sentences) + 1, meta)

\* fault variant of the duplicate branch: the UPDATE that would link the
\* two rows is added, and points the original row at its copy
InsertDuplicateLinkingOriginal(d, link_id, s, h, orig_id) ==
    [db |-> IF orig_id # NullId
            THEN [_insert_sentence_row(d, link_id, s, "duplicate", h, orig_id)
                    EXCEPT !.sentences[orig_id].duplicate_of = Len(d.sentences) + 1]
            ELSE _insert_sentence_row(d, link_id, s, "duplicate", h, orig_id),
     failed |-> LogRaises(TRUE)]

\* the duplicate branch: the row is inserted with status duplicate, then
\* context.log(..., level=logging.DEBUG) raises and ends the loop (failed)
InsertDuplicate(d, link_id, s, h, orig_id) ==
    [db |-> _insert_sentence_row(d, link_id, s, "duplicate", h, orig_id),
     failed |-> LogRaises(TRUE)]

\* "duplicate detection" for one result, given the id the SELECT returned
PersistFound(d, link_id, r, s, h, orig_id, dup_of) ==
    IF orig_id # NullId
    THEN InsertDuplicate(d, link_id, s, h, dup_of)
    ELSE [db |-> InsertNew(d, link_id, s, IF r.status # "" THEN r.status ELSE "new",
                           h, r.metadata),
          failed |-> FALSE]

\* one iteration of the loop over processed_results, s = r.text.strip():
\* by hash when the column exists, else by the exact string (where no
\* duplicate_of is passed)
PersistText(d, link_id, r, s) ==
    IF s = <<>> THEN [db |-> d, failed |-> FALSE]
    ELSE IF _table_has_column(d, "hash")
    THEN PersistFound(d, link_id, r, s, _hash_text(s),
                      SelectByHash(d, _hash_text(s)), SelectByHash(d, _hash_text(s)))
    ELSE PersistFound(d, link_id, r, s, NullHash, SelectBySentence(d, s), NullId)

\* The loop of DBVisitor.on_page_end over processed_results. It ends early
\* when an iteration raised (failed); the rows inserted so far stay, each
\* insert commits.
RECURSIVE PersistResults(_, _, _)
PersistRest(p, link_id, rest) ==
    IF p.failed THEN p ELSE PersistResults(p.db, link_id, rest)
PersistResults(d, link_id, rs) ==
    IF rs = <<>> THEN [db |-> d, failed |-> FALSE]
    ELSE PersistRest(PersistText(d, link_id, Head(rs), Strip(Head(rs).text)),
                     link_id, Tail(rs))

\* the except branch of DBVisitor.on_page_end: the error is counted, then
\* context.log(..., level=logging.ERROR) raises out of the handler
PersistFailed(e) == IF LogRaises(TRUE) THEN Raise(e) ELSE e
PersistDone(e, p) ==
    IF p.failed
    THEN PersistFailed([e EXCEPT !.db = p.db, !.stats.errors = @ + 1])
    ELSE [e EXCEPT !.db = p.db]

\* the try block of DBVisitor.on_page_end, d1 the store after links.insert
PersistPage(e, d1) ==
    PersistDone(e, PersistResults(d1, LinkId(d1, e.page.url),
                                  e.page.processed_results))

\* fault variant of DBVisitor.on_page_end: the is_root test is missing
DB_on_page_end_no_root_check(e) ==
    IF ~e.page.has_results THEN Raise(e)
    ELSE IF "already_in_db" \in e.page.flags THEN e
    ELSE IF should_skip(e.page) \/ e.page.processed_results = <<>> THEN e
    ELSE PersistPage(e, LinkInsert(e.db, e.page.url))

\* DBVisitor.on_page_end
DB_on_page_end(e) ==
    IF ~e.page.has_results THEN Raise(e)
    ELSE IF e.page.is_root THEN e
    ELSE IF "already_in_db" \in e.page.flags THEN e
    ELSE IF should_skip(e.page) \/ e.page.processed_results = <<>> THEN e
    ELSE PersistPage(e, LinkInsert(e.db, e.page.url))

\* the handler of visitor v for an event, wrapped by auto_validate for the
\* four page and link events; ok is the outcome of the GET
Handle(v, event, e, cfg, ok) ==
    IF event \in {"on_page_start", "on_page_process", "on_page_end",
                  "on_link_discovered"} /\ AutoValidateFails(v, e.page)
    THEN Raise(e)
    ELSE
    CASE v = "VisitorChainValidator" /\ event = "on_crawl_start" ->
            Validator_on_crawl_start(e, cfg.visitors)
      [] v = "StatsVisitor" /\ event = "on_crawl_end" -> Stats_on_crawl_end(e)
      [] v = "URLTrackerVisitor" /\ event = "on_page_start" ->
            URLTracker_on_page_start(e)
      [] v = "ExclusionVisitor" /\ event = "on_page_start" ->
            Exclusion_on_page_start(e, cfg.exclude_patterns)
      [] v = "DBVisitor" /\ event = "on_page_start" -> DB_on_page_start(e)
      [] v = "FetcherVisitor" /\ event = "on_page_process" ->
            Fetcher_on_page_process(e, ok)
      [] v = "ParserVisitor" /\ event = "on_page_process" ->
            Parser_on_page_process(e)
      [] v = "SentenceProcessorVisitor" /\ event = "on_page_process" ->
            SentenceProcessor_on_page_process(e, cfg.processors)
      [] v = "DBVisitor" /\ event = "on_page_end" -> DB_on_page_end(e)
      [] OTHER -> e

\* ------------------------------------------------------------------ state
VARIABLES
    config,         \* Crawler.config / context.config (fixed during a run)
    visited,        \* context.visited
    stats,          \* context.stats
    has_stop_attr,  \* hasattr(context, "stop_triggered")
    stop_triggered, \* context.stop_triggered (FALSE while the attribute is absent)
    has_page,       \* context.page is not None
    page,           \* context.page
    db,             \* the SQLite store behind DBVisitor.conn
    phase,          \* where Crawler.run stands
    stack,          \* the activations of Crawler._crawl, outermost first
    vi,             \* the index in self.visitors the loop of _notify stands at
    received,       \* observation: the visitors called in the current broadcast
    raised,         \* observation: the visitors that raised in the current broadcast
    ever_raised,    \* observation: some visitor call of the run raised
    fetches,        \* observation: the URLs an HTTP GET was issued for
    summary,        \* observation: StatsVisitor logged the summary
    built,          \* observation: the Pages constructed, in order
    discovered,     \* observation: the links broadcast as on_link_discovered
    pruned,         \* observation: the calls of _crawl that returned before building a Page
    validated,      \* observation: outcome of the chain validator
    review,         \* review_app: the last request served and its response
    scraper,        \* scraper.py: the module's counters and thresholds
    quotes          \* BalancedQuotesFilter: a sentence and the result of process

vars == <<config, visited, stats, has_stop_attr, stop_triggered, has_page, page,
          db, phase, stack, vi, received, raised, ever_raised, fetches,
          summary, built, discovered, pruned, validated, review, scraper,
          quotes>>

\* the stores a run may open: a new file, a file migrated by the backfill
\* script, and either of them holding the links of earlier runs (a link row
\* for a page below the seed; link rows for the seed itself and that page)
Stores == {init_db, ensure_schema(init_db),
           LinkInsert(init_db, UrlA), LinkInsert(ensure_schema(init_db), UrlA),
           LinkInsert(LinkInsert(init_db, RootUrl), UrlA)}

ExcludeConfigs == {<<>>, <<"/b">>}
ProcessorConfigs == {<<>>, <<"SkipRootText", "PatternRejector", "DomainClassifier">>,
                     <<"PatternRejector", "DomainClassifier">>,
                     <<"NotAResultProcessor">>}

\* scraper.py is not running: the module's globals as they are defined
ScraperIdle ==
    [stats |-> [new_links |-> 0, skipped_links |-> 0, sentences |-> 0],
     max_pages |-> 50, min_sentences |-> 1, max_total_links |-> 200,
     returned_true |-> FALSE, crawl_true |-> FALSE]

\* no sentence has been handed to the quote filter
NoSentence == [text |-> <<>>, result |-> <<>>, processed |-> FALSE]

\* no request has been served by the review application
NoRequest ==
    [op |-> "", ids |-> {}, status |-> "", did |-> 0, ok |-> FALSE, served |-> 0]

\* Crawler.__init__ and the first lines of Crawler.run: CrawlContext(config)
Init ==
    /\ config \in [visitors : Chains,
                   depth : 0..MaxDepthCfg,
                   max_pages : 0..MaxPagesCfg,
                   min_sentences : 0..MinSentencesCfg,
                   max_total_links : {MaxTotalLinksCfg},
                   exclude_patterns : ExcludeConfigs,
                   processors : ProcessorConfigs,
                   base_url : {RootUrl}]
    /\ visited = {}
    /\ stats = [pages |-> 0, links |-> 0, errors |-> 0, sentences |-> 0]
    /\ has_stop_attr = FALSE
    /\ stop_triggered = FALSE
    /\ has_page = FALSE
    /\ page = NewPage(<<>>, 0, FALSE)
    /\ db \in Stores
    /\ phase = "on_crawl_start"
    /\ stack = <<>>
    /\ vi = 1
    /\ received = {}
    /\ raised = {}
    /\ ever_raised = FALSE
    /\ fetches = <<>>
    /\ summary = FALSE
    /\ built = <<>>
    /\ discovered = <<>>
    /\ pruned = {}
    /\ validated = "not_run"
    /\ review = NoRequest
    /\ scraper = ScraperIdle
    /\ quotes = NoSentence

NVisitors == Len(config.visitors)
Top == stack[Len(stack)]
InCrawl(pc) == phase = "crawl" /\ stack # <<>> /\ Top.pc = pc
SetTop(f) == [stack EXCEPT ![Len(stack)] = f]
Pop == SubSeq(stack, 1, Len(stack) - 1)

\* the event being broadcast by _notify, "" when none is
CurrentEvent ==
    IF phase \in {"on_crawl_start", "on_crawl_end"} THEN phase
    ELSE IF phase = "crawl" /\ stack # <<>> /\
            Top.pc \in {"on_page_start", "on_page_process", "on_page_end",
                        "on_link_discovered"}
    THEN Top.pc ELSE ""

Env == [page |-> page, visited |-> visited, stats |-> stats, db |-> db,
        raised |-> FALSE, fetches |-> fetches, summary |-> summary]

\* fault variant of _notify: no try/except around the visitor call
NotifyPropagates(e) == FALSE

\* the try/except of _notify: an exception of a visitor is caught and logged
NotifyCatches(e) == TRUE

\* One iteration of the loop of _notify, e the environment the handler of
\* visitor vi left. When the exception is not caught the run ends with it
\* (phase aborted).
NotifyResult(event, e) ==
    /\ page' = e.page
    /\ visited' = e.visited
    /\ stats' = e.stats
    /\ db' = e.db
    /\ fetches' = e.fetches
    /\ summary' = e.summary
    /\ received' = received \cup {vi}
    /\ raised' = IF e.raised THEN raised \cup {vi} ELSE raised
    /\ ever_raised' = (ever_raised \/ e.raised)
    /\ validated' = IF config.visitors[vi] = "VisitorChainValidator"
                       /\ event = "on_crawl_start"
                    THEN (IF e.raised THEN "raised" ELSE "passed")
                    ELSE validated
    /\ IF NotifyCatches(e) \/ ~e.raised
       THEN /\ vi' = vi + 1
            /\ UNCHANGED <<phase, stack>>
       ELSE /\ vi' = vi
            /\ phase' = "aborted"
            /\ stack' = <<>>
    /\ UNCHANGED <<scraper, quotes, review, config, has_stop_attr, stop_triggered, has_page, built,
                   discovered, pruned>>

NotifyStep(event, ok) ==
    /\ vi <= NVisitors
    /\ NotifyResult(event, Handle(config.visitors[vi], event, Env, config, ok))

\* ------------------------------------------------------------------ Crawler.run
\* self._notify("on_crawl_start", context): one visitor
OnCrawlStart ==
    /\ phase = "on_crawl_start"
    /\ NotifyStep("on_crawl_start", TRUE)

\* self._crawl(context, start_url, 0, is_root=True)
Frame(url, depth, is_root) ==
    [url |-> url, depth |-> depth, is_root |-> is_root,
     links |-> <<>>, idx |-> 1, pc |-> "enter", events |-> <<>>]

RunCrawl ==
    /\ phase = "on_crawl_start"
    /\ vi = NVisitors + 1
    /\ phase' = "crawl"
    /\ stack' = <<Frame(config.base_url, 0, TRUE)>>
    /\ UNCHANGED <<scraper, quotes, review, config, visited, stats, has_stop_attr, stop_triggered,
                   has_page, page, db, vi, received, raised, ever_raised,
                   fetches, summary, built, discovered, pruned, validated>>

\* ------------------------------------------------------------------ Crawler._crawl
\* fault variant of the stop predicate: ">" in place of ">=" for the pages
StopPredicateStrict(st, cfg) ==
    st.pages > cfg.max_pages /\ st.sentences >= cfg.min_sentences

\* fault variant of the stop predicate: "or" in place of "and"
StopPredicateOr(st, cfg) ==
    st.pages >= cfg.max_pages \/ st.sentences >= cfg.min_sentences

\* the stop predicate of _crawl
StopPredicate(st, cfg) ==
    st.pages >= cfg.max_pages /\ st.sentences >= cfg.min_sentences

\* fault variant of the depth guard: off by one
DepthExceededOffByOne(depth, cfg) == depth > cfg.depth + 1

\* the depth limit guard
DepthExceeded(depth, cfg) == depth > cfg.depth

\* fault variant of the stop check in the link loop: the flag is cleared
\* when it is acted on
StopFlagConsumed(flag) == FALSE

\* context.stop_triggered after "if context.stop_triggered: return" at the
\* head of the link loop: the flag is read, not written
StopFlagAfterLoopCheck(flag) == flag

\* fault variant of the link loop: "if context.stop_triggered: return" is
\* missing
StopNotCheckedInLoop(flag) == FALSE

\* "if context.stop_triggered: return" at the head of each iteration of the
\* link loop: the loop is left when the flag is set
StopCheckedInLoop(flag) == flag

\* fault variant of the netloc test: every link is followed
SameAuthorityOrAny(link, url) == TRUE

\* "Stay within domain": the link is followed when the authorities agree
SameAuthority(link, url) == Netloc(link) = Netloc(url)

\* the depth of the recursive call
ChildDepth(depth) == depth + 1

\* return from _crawl: back in the caller's link loop, or in run
Return ==
    /\ stack' = Pop
    /\ IF Len(stack) = 1
       THEN phase' = "on_crawl_end" /\ vi' = 1 /\ received' = {} /\ raised' = {}
       ELSE UNCHANGED <<phase, vi, received, raised>>

\* a return of _crawl before any Page is built, with its cause
Prune(why) ==
    /\ pruned' = pruned \cup {[url |-> Top.url, depth |-> Top.depth, why |-> why]}
    /\ Return
    /\ UNCHANGED <<has_page, page, stats, built>>

\* entry of _crawl up to the first _notify: stop flag, stop predicate,
\* depth guard, Page construction
CrawlEnter ==
    /\ InCrawl("enter")
    /\ has_stop_attr' = TRUE
    /\ IF has_stop_attr /\ stop_triggered
       THEN /\ UNCHANGED stop_triggered
            /\ Prune("stopped")
       ELSE IF StopPredicate(stats, config)
       THEN /\ stop_triggered' = TRUE
            /\ Prune("stop_set")
       ELSE IF DepthExceeded(Top.depth, config)
       THEN /\ UNCHANGED stop_triggered
            /\ Prune("depth")
       ELSE /\ UNCHANGED <<stop_triggered, pruned>>
            /\ has_page' = TRUE
            /\ page' = NewPage(Top.url, Top.depth, Top.is_root)
            /\ stats' = [stats EXCEPT !.pages = @ + 1]
            /\ built' = Append(built,
                               [url |-> Top.url, depth |-> Top.depth,
                                is_root |-> Top.is_root,
                                parent |-> IF Len(stack) > 1
                                           THEN stack[Len(stack) - 1].url
                                           ELSE <<>>,
                                parent_depth |-> IF Len(stack) > 1
                                                 THEN stack[Len(stack) - 1].depth
                                                 ELSE -1])
            /\ stack' = SetTop([Top EXCEPT !.pc = "on_page_start"])
            /\ vi' = 1
            /\ received' = {}
            /\ raised' = {}
            /\ UNCHANGED phase
    /\ UNCHANGED <<scraper, quotes, review, config, visited, db, ever_raised, fetches, summary,
                   discovered, validated>>

\* self._notify("on_page_start", context): one visitor
OnPageStart ==
    /\ InCrawl("on_page_start")
    /\ NotifyStep("on_page_start", TRUE)

\* self._notify("on_page_process", context): one visitor; the GET of the
\* fetcher succeeds or fails
OnPageProcess ==
    /\ InCrawl("on_page_process")
    /\ vi <= NVisitors
    /\ \E ok \in BOOLEAN :
          /\ (config.visitors[vi] # "FetcherVisitor" => ok)
          /\ NotifyStep("on_page_process", ok)

\* self._notify("on_page_end", context): one visitor
OnPageEnd ==
    /\ InCrawl("on_page_end")
    /\ NotifyStep("on_page_end", TRUE)

\* fault variant of the three _notify calls of _crawl: on_page_end is
\* broadcast before on_page_process
StatementAfterSwapped(pc) ==
    CASE pc = "on_page_start"   -> "on_page_end"
      [] pc = "on_page_end"     -> "on_page_process"
      [] pc = "on_page_process" -> "loop"

\* the statement of _crawl that follows the _notify of a page event
StatementAfter(pc) ==
    CASE pc = "on_page_start"   -> "on_page_process"
      [] pc = "on_page_process" -> "on_page_end"
      [] pc = "on_page_end"     -> "loop"

\* a _notify of a page event has called every visitor: the next statement
\* of _crawl (the next _notify, or links = getattr(context.page, "links", []))
NextEvent ==
    /\ phase = "crawl" /\ stack # <<>>
    /\ Top.pc \in {"on_page_start", "on_page_process", "on_page_end"}
    /\ vi = NVisitors + 1
    /\ LET nxt == StatementAfter(Top.pc)
       IN  stack' = SetTop([Top EXCEPT !.pc = nxt,
                                       !.events = Append(@, Top.pc),
                                       !.links = IF nxt = "loop" THEN page.links ELSE @])
    /\ vi' = 1
    /\ received' = {}
    /\ raised' = {}
    /\ UNCHANGED <<scraper, quotes, review, config, visited, stats, has_stop_attr, stop_triggered,
                   has_page, page, db, phase, ever_raised, fetches, summary,
                   built, discovered, pruned, validated>>

\* head of "for link in links": the loop ends, or the stop flag ends it, or
\* the link is counted and its broadcast begins
LinkLoop ==
    /\ InCrawl("loop")
    /\ IF Top.idx > Len(Top.links)
       THEN /\ Return
            /\ UNCHANGED <<stats, discovered, stop_triggered>>
       ELSE IF StopCheckedInLoop(stop_triggered)
       THEN /\ stop_triggered' = StopFlagAfterLoopCheck(stop_triggered)
            /\ Return
            /\ UNCHANGED <<stats, discovered>>
       ELSE /\ stats' = [stats EXCEPT !.links = @ + 1]
            /\ discovered' = Append(discovered, Top.links[Top.idx])
            /\ stack' = SetTop([Top EXCEPT !.pc = "on_link_discovered"])
            /\ vi' = 1
            /\ received' = {}
            /\ raised' = {}
            /\ UNCHANGED <<phase, stop_triggered>>
    /\ UNCHANGED <<scraper, quotes, review, config, visited, has_stop_attr, has_page, page, db,
                   ever_raised, fetches, summary, built, pruned, validated>>

\* self._notify("on_link_discovered", context, link): one visitor
OnLinkDiscovered ==
    /\ InCrawl("on_link_discovered")
    /\ NotifyStep("on_link_discovered", TRUE)

\* the netloc test and the recursive call for the link just broadcast
FollowLink ==
    /\ InCrawl("on_link_discovered")
    /\ vi = NVisitors + 1
    /\ LET link == Top.links[Top.idx]
           back == [Top EXCEPT !.pc = "loop", !.idx = @ + 1]
       IN  IF SameAuthority(link, Top.url)
           THEN stack' = Append(SetTop(back),
                                Frame(link, ChildDepth(Top.depth), FALSE))
           ELSE stack' = SetTop(back)
    /\ UNCHANGED <<scraper, quotes, review, config, visited, stats, has_stop_attr, stop_triggered,
                   has_page, page, db, phase, vi, received, raised,
                   ever_raised, fetches, summary, built, discovered, pruned, validated>>

\* self._notify("on_crawl_end", context): one visitor
OnCrawlEnd ==
    /\ phase = "on_crawl_end"
    /\ NotifyStep("on_crawl_end", TRUE)

\* Crawler.run returns
Finish ==
    /\ phase = "on_crawl_end"
    /\ vi = NVisitors + 1
    /\ phase' = "done"
    /\ UNCHANGED <<scraper, quotes, review, config, visited, stats, has_stop_attr, stop_triggered,
                   has_page, page, db, stack, vi, received, raised,
                   ever_raised, fetches, summary, built, discovered, pruned, validated>>

\* backfill_and_mark_duplicates.py run on the store the finished run left
Backfill ==
    /\ phase = "done"
    /\ phase' = "backfilled"
    /\ db' = backfill_main(db)
    /\ UNCHANGED <<scraper, quotes, review, config, visited, stats, has_stop_attr, stop_triggered,
                   has_page, page, stack, vi, received, raised,
                   ever_raised, fetches, summary, built, discovered, pruned, validated>>

\* the steps of Crawler.run
RunNext ==
    \/ OnCrawlStart
    \/ RunCrawl
    \/ CrawlEnter
    \/ OnPageStart
    \/ OnPageProcess
    \/ OnPageEnd
    \/ NextEvent
    \/ LinkLoop
    \/ OnLinkDiscovered
    \/ FollowLink
    \/ OnCrawlEnd
    \/ Finish

Next ==
    \/ RunNext
    \/ Backfill

Spec == Init /\ [][Next]_vars

\* the runs whose chain holds the URL tracker before or behind the fetcher,
\* with the largest limits, so that the crawl comes back to URLs it visited
TrackerInit ==
    /\ config \in [visitors : {TypicalChain, TrackerLastChain},
                   depth : {MaxDepthCfg},
                   max_pages : {MaxPagesCfg},
                   min_sentences : 0..MinSentencesCfg,
                   max_total_links : {MaxTotalLinksCfg},
                   exclude_patterns : ExcludeConfigs,
                   processors : ProcessorConfigs,
                   base_url : {RootUrl}]
    /\ db \in Stores
    /\ phase = "on_crawl_start"
    /\ visited = {}
    /\ stats = [pages |-> 0, links |-> 0, errors |-> 0, sentences |-> 0]
    /\ has_stop_attr = FALSE
    /\ stop_triggered = FALSE
    /\ has_page = FALSE
    /\ page = NewPage(<<>>, 0, FALSE)
    /\ stack = <<>>
    /\ vi = 1
    /\ received = {}
    /\ raised = {}
    /\ ever_raised = FALSE
    /\ fetches = <<>>
    /\ summary = FALSE
    /\ built = <<>>
    /\ discovered = <<>>
    /\ pruned = {}
    /\ validated = "not_run"
    /\ review = NoRequest
    /\ scraper = ScraperIdle
    /\ quotes = NoSentence

TrackerSpec == TrackerInit /\ [][Next]_vars

\* Crawler.run has a statement to execute: the broadcast under way has a
\* visitor left to call or is over and the statement after it is next, or an
\* activation of _crawl stands at its entry or at the head of its link loop
RunCanStep ==
    \/ /\ phase \in {"on_crawl_start", "on_crawl_end"}
       /\ vi \in 1..(NVisitors + 1)
    \/ /\ phase = "crawl"
       /\ stack # <<>>
       /\ \/ Top.pc \in {"enter", "loop"}
          \/ /\ Top.pc \in {"on_page_start", "on_page_process", "on_page_end"}
             /\ vi \in 1..(NVisitors + 1)
          \/ /\ Top.pc = "on_link_discovered"
             /\ vi \in 1..(NVisitors + 1)
             /\ Top.idx \in 1..Len(Top.links)

\* ------------------------------------------------------------------ review_app.py
\* the number of requests the review application serves
MaxRequests == 2

\* the crawler's own variables while no run is under way
CrawlerIdle ==
    /\ visited = {}
    /\ stats = [pages |-> 0, links |-> 0, errors |-> 0, sentences |-> 0]
    /\ has_stop_attr = FALSE
    /\ stop_triggered = FALSE
    /\ has_page = FALSE
    /\ page = NewPage(<<>>, 0, FALSE)
    /\ stack = <<>>
    /\ vi = 1
    /\ received = {}
    /\ raised = {}
    /\ ever_raised = FALSE
    /\ fetches = <<>>
    /\ summary = FALSE
    /\ built = <<>>
    /\ discovered = <<>>
    /\ pruned = {}
    /\ validated = "not_run"

\* the store DBVisitor.on_page_end leaves for a page below the seed that was
\* fetched and processed by the processors ps
StoreAfterPage(d, url, ps) ==
    PersistResults(LinkInsert(d, url), LinkId(LinkInsert(d, url), url),
                   ProcessSentences(ps, SiteDoc(url).body, FALSE)).db

\* the stores the review application is opened on: a page's rows persisted
\* by the core, before and after the schema migration
ReviewStores ==
    {StoreAfterPage(d, UrlB, <<"PatternRejector", "DomainClassifier">>) :
        d \in {init_db, ensure_schema(init_db)}}

\* fault variant of the untagged check: no sentence counts as untagged
untagged_count_none(d, ids) == 0

\* SELECT COUNT(*) FROM staging_sentences s LEFT JOIN staging_sentence_domain
\* sd ... WHERE s.id IN (ids) AND sd.domain_id IS NULL: the sentences named
\* that have no mapping row, plus the mapping rows without a domain
untagged_count(d, ids) ==
    Cardinality({i \in ids \cap (1..Len(d.sentences)) :
                    \A k \in 1..Len(d.sentence_domain) :
                        d.sentence_domain[k].sentence_id # i})
    + Cardinality({k \in 1..Len(d.sentence_domain) :
                    /\ d.sentence_domain[k].sentence_id \in ids \cap (1..Len(d.sentences))
                    /\ d.sentence_domain[k].domain_id = NullId})

\* api_update_status_bulk: the response (ok) and the store after the request
api_update_status_bulk(d, ids, status) ==
    IF ids = {} \/ status \notin {"new", "reviewed", "rejected"}
    THEN [ok |-> FALSE, db |-> d]
    ELSE IF status = "reviewed" /\ untagged_count(d, ids) > 0
    THEN [ok |-> FALSE, db |-> d]
    ELSE [ok |-> TRUE,
          db |-> [d EXCEPT !.sentences =
                    [i \in 1..Len(d.sentences) |->
                        IF i \in ids THEN [d.sentences[i] EXCEPT !.status = status]
                        ELSE d.sentences[i]]]]

\* api_update_domain: did = NullId stands for a missing domain_id or
\* "untagged"
api_update_domain(d, sid, did) ==
    IF sid = NullId THEN [ok |-> FALSE, db |-> d]
    ELSE IF did = NullId
    THEN LET keep(r) == r.sentence_id # sid
         IN  [ok |-> TRUE,
              db |-> [d EXCEPT !.sentence_domain = SelectSeq(@, keep)]]
    ELSE IF sid \notin 1..Len(d.sentences) \/ did \notin 1..Len(d.domain)
    THEN [ok |-> FALSE, db |-> d]
    ELSE [ok |-> TRUE,
          db |-> SentenceDomainInsert(d, sid, did, "NULL", "manual_review")]

\* POST /api/update_status_bulk with ids that exist or not and any status
ApiUpdateStatusBulk ==
    /\ phase = "review"
    /\ review.served < MaxRequests
    /\ \E ids \in SUBSET (1..(Len(db.sentences) + 1)),
          status \in {"new", "reviewed", "rejected", "duplicate"} :
          /\ db' = api_update_status_bulk(db, ids, status).db
          /\ review' = [op |-> "update_status_bulk", ids |-> ids,
                        status |-> status, did |-> NullId,
                        ok |-> api_update_status_bulk(db, ids, status).ok,
                        served |-> review.served + 1]
    /\ UNCHANGED <<config, visited, stats, has_stop_attr, stop_triggered,
                   has_page, page, phase, stack, vi, received, raised,
                   ever_raised, fetches, summary, built, discovered, pruned,
                   validated, scraper, quotes>>

\* POST /api/update_domain
ApiUpdateDomain ==
    /\ phase = "review"
    /\ review.served < MaxRequests
    /\ \E sid \in 0..(Len(db.sentences) + 1), did \in 0..(Len(db.domain) + 1) :
          /\ db' = api_update_domain(db, sid, did).db
          /\ review' = [op |-> "update_domain", ids |-> {sid}, status |-> "",
                        did |-> did, ok |-> api_update_domain(db, sid, did).ok,
                        served |-> review.served + 1]
    /\ UNCHANGED <<config, visited, stats, has_stop_attr, stop_triggered,
                   has_page, page, phase, stack, vi, received, raised,
                   ever_raised, fetches, summary, built, discovered, pruned,
                   validated, scraper, quotes>>

\* the review application serving requests on a store the core has filled
ReviewInit ==
    /\ phase = "review"
    /\ db \in ReviewStores
    /\ review = NoRequest
    /\ scraper = ScraperIdle
    /\ quotes = NoSentence
    /\ config = [visitors |-> TypicalChain, depth |-> 0, max_pages |-> 0,
                 min_sentences |-> 0, exclude_patterns |-> <<>>,
                 processors |-> <<"PatternRejector", "DomainClassifier">>,
                 base_url |-> RootUrl]
    /\ CrawlerIdle

ReviewNext ==
    \/ ApiUpdateStatusBulk
    \/ ApiUpdateDomain

ReviewSpec == ReviewInit /\ [][ReviewNext]_vars

\* ------------------------------------------------------------------ scraper.py
\* the largest value a counter or a threshold of scraper.py takes
MaxCount == 3

\* fault variant of stop_condition: the hard stop compares with == in place
\* of >=
stop_condition_exact(sc) ==
    \/ sc.stats.new_links >= sc.max_pages /\ sc.stats.sentences >= sc.min_sentences
    \/ sc.stats.new_links + sc.stats.skipped_links = sc.max_total_links

\* stop_condition() over the module's globals
stop_condition(sc) ==
    \/ sc.stats.new_links >= sc.max_pages /\ sc.stats.sentences >= sc.min_sentences
    \/ sc.stats.new_links + sc.stats.skipped_links >= sc.max_total_links

\* the predicate of Crawler._crawl over the same counters: pages visited and
\* sentences collected against max_pages and min_sentences
CrawlPredicate(sc) ==
    StopPredicate([pages |-> sc.stats.new_links, sentences |-> sc.stats.sentences],
                  [max_pages |-> sc.max_pages, min_sentences |-> sc.min_sentences])

\* main() has read the thresholds from the config; the counters are zero
StopInit ==
    /\ phase = "scraper"
    /\ \E mp, ms, mt \in 0..MaxCount :
          scraper = [ScraperIdle EXCEPT !.max_pages = mp, !.min_sentences = ms,
                                        !.max_total_links = mt]
    /\ quotes = NoSentence
    /\ review = NoRequest
    /\ db = init_db
    /\ config = [visitors |-> TypicalChain, depth |-> 0, max_pages |-> 0,
                 min_sentences |-> 0, exclude_patterns |-> <<>>,
                 processors |-> <<>>, base_url |-> RootUrl]
    /\ CrawlerIdle

\* a statement of scrape_page that counts: stats[k] += 1
ScraperCount ==
    /\ phase = "scraper"
    /\ \E k \in {"new_links", "skipped_links", "sentences"} :
          /\ scraper.stats[k] < MaxCount
          /\ scraper' = [scraper EXCEPT !.stats[k] = @ + 1]
    /\ UNCHANGED <<config, visited, stats, has_stop_attr, stop_triggered,
                   has_page, page, db, phase, stack, vi, received, raised,
                   ever_raised, fetches, summary, built, discovered, pruned,
                   validated, review, quotes>>

\* an evaluation of stop_condition(), and of the crawler's predicate on the
\* same counters; the outcome True is remembered
StopEvaluate ==
    /\ phase = "scraper"
    /\ scraper' = [scraper EXCEPT
                      !.returned_true = @ \/ stop_condition(scraper),
                      !.crawl_true = @ \/ CrawlPredicate(scraper)]
    /\ UNCHANGED <<config, visited, stats, has_stop_attr, stop_triggered,
                   has_page, page, db, phase, stack, vi, received, raised,
                   ever_raised, fetches, summary, built, discovered, pruned,
                   validated, review, quotes>>

StopNext ==
    \/ ScraperCount
    \/ StopEvaluate

StopSpec == StopInit /\ [][StopNext]_vars

\* ------------------------------------------------------------------ quote filter
\* the longest sentence handed to BalancedQuotesFilter
MaxSentenceLen == 4

\* the characters the sentences are made of: a letter, a blank, the straight
\* double quote, a typographic double quote, the straight single quote
QuoteAlphabet == {"a", " ", "\"", "rdquo", "'"}

\* a sentence is about to be processed by BalancedQuotesFilter
QuoteInit ==
    /\ phase = "quote_filter"
    /\ \E n \in 0..MaxSentenceLen : \E t \in [1..n -> QuoteAlphabet] :
          quotes = [NoSentence EXCEPT !.text = t]
    /\ scraper = ScraperIdle
    /\ review = NoRequest
    /\ db = init_db
    /\ config = [visitors |-> TypicalChain, depth |-> 0, max_pages |-> 0,
                 min_sentences |-> 0, exclude_patterns |-> <<>>,
                 processors |-> <<"BalancedQuotesFilter">>, base_url |-> RootUrl]
    /\ CrawlerIdle

\* r = BalancedQuotesFilter().process(sentence)
QuoteProcess ==
    /\ phase = "quote_filter"
    /\ ~quotes.processed
    /\ quotes' = [quotes EXCEPT !.result = BalancedQuotesFilter(quotes.text).text,
                                !.processed = TRUE]
    /\ UNCHANGED <<config, visited, stats, has_stop_attr, stop_triggered,
                   has_page, page, db, phase, stack, vi, received, raised,
                   ever_raised, fetches, summary, built, discovered, pruned,
                   validated, review, scraper>>

QuoteSpec == QuoteInit /\ [][QuoteProcess]_vars

\* ------------------------------------------------------------------ sentence pipeline
\* the largest number of sentences of a page text handed to the pipeline
MaxSentences == 2

\* the sentences the splitter yields: plain text, text a pattern rejects, a
\* lone quote, rejected text behind an unmatched quote, truncated text
PipelineSentences == {T1, T4, <<"\"">>, <<"\"", "c", "d">>, <<"a", ".", ".">>}

\* the processor lists of config["processors"] explored for the pipeline
PipelineChains ==
    {<<>>, <<"BalancedQuotesFilter">>,
     <<"BalancedQuotesFilter", "PatternRejector", "DomainClassifier">>,
     <<"TruncatedSentenceFilter", "DomainClassifier", "PatternRejector",
       "BalancedQuotesFilter">>,
     <<"BalancedQuotesFilter", "SkipRootText", "DomainClassifier">>}

\* a Page whose clean text the parser has just stored stands before
\* SentenceProcessorVisitor.on_page_process
PipelineInit ==
    /\ phase = "pipeline"
    /\ \E ps \in PipelineChains :
          config = [visitors |-> <<"SentenceProcessorVisitor">>, depth |-> 0,
                    max_pages |-> 0, min_sentences |-> 0,
                    exclude_patterns |-> <<>>, processors |-> ps,
                    base_url |-> RootUrl]
    /\ \E n \in 1..MaxSentences, root \in BOOLEAN :
          \E t \in [1..n -> PipelineSentences] :
             page = [NewPage(IF root THEN RootUrl ELSE UrlA,
                             IF root THEN 0 ELSE 1, root)
                        EXCEPT !.text_clean = t, !.has_text_clean = TRUE]
    /\ has_page = TRUE
    /\ \E counted \in 0..1 :
          stats = [pages |-> 1, links |-> 0, errors |-> 0, sentences |-> counted]
    /\ visited = {}
    /\ has_stop_attr = TRUE
    /\ stop_triggered = FALSE
    /\ db = init_db
    /\ stack = <<>>
    /\ vi = 1
    /\ received = {}
    /\ raised = {}
    /\ ever_raised = FALSE
    /\ fetches = <<>>
    /\ summary = FALSE
    /\ built = <<>>
    /\ discovered = <<>>
    /\ pruned = {}
    /\ validated = "not_run"
    /\ review = NoRequest
    /\ scraper = ScraperIdle
    /\ quotes = NoSentence

\* _notify calls SentenceProcessorVisitor.on_page_process for the page
PipelineProcess ==
    /\ phase = "pipeline"
    /\ NotifyStep("on_page_process", TRUE)

PipelineSpec == PipelineInit /\ [][PipelineProcess]_vars

\* ------------------------------------------------------------------ DBVisitor.on_page_end alone
\* DBVisitor.on_page_end called for one page after another on one store.
\* The handler is called as _notify calls it, for pages of any URL below the
\* seed, with the flags DBVisitor.on_page_start leaves for a URL it found or
\* with none of them, so that links.insert also meets URLs that have a row.
MaxPersisted == 3

\* processed_results of a page: one accepted sentence, or an accepted and a
\* rejected one
PersistedResults ==
    {<< [text |-> T1, status |-> "new", metadata |-> EmptyMeta] >>,
     << [text |-> T1, status |-> "new", metadata |-> EmptyMeta],
        [text |-> T4, status |-> "rejected", metadata |-> EmptyMeta] >>}

PersistInit ==
    /\ phase = "persist"
    /\ config = [visitors |-> <<"DBVisitor">>, depth |-> 1,
                 max_pages |-> 0, min_sentences |-> 0,
                 exclude_patterns |-> <<>>, processors |-> <<>>,
                 base_url |-> RootUrl]
    /\ db \in {init_db, ensure_schema(init_db)}
    /\ page = NewPage(RootUrl, 0, TRUE)
    /\ has_page = FALSE
    /\ stats = [pages |-> 0, links |-> 0, errors |-> 0, sentences |-> 0]
    /\ visited = {}
    /\ has_stop_attr = TRUE
    /\ stop_triggered = FALSE
    /\ stack = <<>>
    /\ vi = 2
    /\ received = {}
    /\ raised = {}
    /\ ever_raised = FALSE
    /\ fetches = <<>>
    /\ summary = FALSE
    /\ built = <<>>
    /\ discovered = <<>>
    /\ pruned = {}
    /\ validated = "not_run"
    /\ review = NoRequest
    /\ scraper = ScraperIdle
    /\ quotes = NoSentence

\* the next Page reaches on_page_end with its processed_results attached
PersistBuild ==
    /\ phase = "persist"
    /\ vi = NVisitors + 1
    /\ stats.pages < MaxPersisted
    /\ \E url \in {UrlA, UrlB}, rs \in PersistedResults, flagged \in BOOLEAN :
          page' = [NewPage(url, 1, FALSE) EXCEPT
                      !.has_results = TRUE,
                      !.processed_results = rs,
                      !.flags = IF flagged /\ _url_exists(db, url)
                                THEN {"already_in_db", "skip_processing"}
                                ELSE {}]
    /\ has_page' = TRUE
    /\ stats' = [stats EXCEPT !.pages = @ + 1]
    /\ vi' = 1
    /\ received' = {}
    /\ raised' = {}
    /\ UNCHANGED <<scraper, quotes, review, config, visited, has_stop_attr,
                   stop_triggered, db, stack, phase, ever_raised, fetches,
                   summary, built, discovered, pruned, validated>>

\* _notify calls DBVisitor.on_page_end for the page
PersistEnd ==
    /\ phase = "persist"
    /\ NotifyStep("on_page_end", TRUE)

PersistNext == PersistBuild \/ PersistEnd

PersistSpec == PersistInit /\ [][PersistNext]_vars

\* ------------------------------------------------------------------ domain classifier
\* the longest sentence handed to DomainClassifier
MaxClassifiedLen == 3

\* the characters the classified sentences are made of
ClassifierAlphabet == {"a", "B", "c", " "}

\* the contents of <lang>_domains.json in the order of the file: a file that
\* cannot be loaded, a table with a misc entry, a table whose entries share a
\* keyword and that has no misc entry, a table whose misc entry has a name
\* of its own
RuleFiles ==
    {<<>>,
     << [code |-> "sci",  name |-> "Science",       keywords |-> <<"B">>],
        [code |-> "misc", name |-> "Miscellaneous", keywords |-> <<>>] >>,
     << [code |-> "sci",  name |-> "Science", keywords |-> <<"b">>],
        [code |-> "art",  name |-> "Art",     keywords |-> <<"a", "b">>] >>,
     << [code |-> "art",  name |-> "Art",     keywords |-> <<"A">>],
        [code |-> "sci",  name |-> "Science", keywords |-> <<"b">>],
        [code |-> "misc", name |-> "Other",   keywords |-> <<>>] >>}

\* DomainClassifier(lang) was built and a sentence is about to be processed
ClassifierInit ==
    /\ phase = "classifier"
    /\ \E n \in 0..MaxClassifiedLen, f \in RuleFiles :
          \E t \in [1..n -> ClassifierAlphabet] :
             quotes = [text |-> t, rules |-> _load_rules(f),
                       result |-> <<>>, processed |-> FALSE]
    /\ scraper = ScraperIdle
    /\ review = NoRequest
    /\ db = init_db
    /\ config = [visitors |-> TypicalChain, depth |-> 0, max_pages |-> 0,
                 min_sentences |-> 0, exclude_patterns |-> <<>>,
                 processors |-> <<"DomainClassifier">>, base_url |-> RootUrl]
    /\ CrawlerIdle

\* r = classifier.process(sentence)
ClassifierProcess ==
    /\ phase = "classifier"
    /\ ~quotes.processed
    /\ quotes' = [quotes EXCEPT
                    !.result = DomainClassifier_process(quotes.rules, quotes.text),
                    !.processed = TRUE]
    /\ UNCHANGED <<config, visited, stats, has_stop_attr, stop_triggered,
                   has_page, page, db, phase, stack, vi, received, raised,
                   ever_raised, fetches, summary, built, discovered, pruned,
                   validated, review, scraper>>

ClassifierSpec == ClassifierInit /\ [][ClassifierProcess]_vars

\* ------------------------------------------------------------------ properties
Rows == db.sentences
RowIds == 1..Len(Rows)
ChainIds == 1..NVisitors
PageEvents == <<"on_page_start", "on_page_process", "on_page_end">>

\* C1: the stop flag is monotonic: no step of the run takes
\* context.stop_triggered from true back to false.
C1_StopFlagMonotonic == [][stop_triggered => stop_triggered']_vars

\* the flag is set while the traversal still has callers to return through
C1_Witness ==
    /\ stop_triggered
    /\ InCrawl("loop")
    /\ Top.idx <= Len(Top.links)

\* C2: _crawl recurses into a link only when the link's netloc equals the
\* netloc of the page holding it; a cross-origin link is counted and
\* broadcast as on_link_discovered, but no Page is built for it and it is
\* never fetched.
C2_SameAuthorityOnly ==
    /\ \A i \in 2..Len(stack) : Netloc(stack[i].url) = Netloc(stack[i - 1].url)
    /\ \A i \in 1..Len(built) :
          ~built[i].is_root => Netloc(built[i].url) = Netloc(built[i].parent)
    /\ \A i \in 1..Len(built) : Netloc(built[i].url) = Netloc(config.base_url)
    /\ \A i \in 1..Len(fetches) : Netloc(fetches[i]) = Netloc(config.base_url)
    /\ stats.links = Len(discovered)

\* a cross-origin link was counted and broadcast, and the run went on to end
C2_Witness ==
    /\ phase = "done"
    /\ \E i \in 1..Len(discovered) :
          Netloc(discovered[i]) \notin {"", Netloc(config.base_url)}
    /\ \E i \in 1..Len(built) : ~built[i].is_root

\* C3: the validator run at crawl start fails exactly when some visitor of
\* the configured chain consumes an attribute that is neither implicit nor
\* produced by a strictly earlier visitor.
C3_ValidatorFailsIffInvalid ==
    validated # "not_run" =>
        (validated = "raised" <=> ~ChainValid(config.visitors))

\* C4: with a chain that breaks the contract, the run aborts before any Page
\* is built, before any GET is issued and without the summary being logged.
C4_InvalidChainAborts ==
    ~ChainValid(config.visitors) =>
        /\ built = <<>>
        /\ fetches = <<>>
        /\ ~summary
        /\ phase # "done"

\* C5: DBVisitor.on_page_end writes nothing to the store for the root page,
\* whatever its processed_results and flags are.
C5_RootNeverPersisted ==
    [][(/\ InCrawl("on_page_end")
        /\ vi <= NVisitors
        /\ config.visitors[vi] = "DBVisitor"
        /\ page.is_root) => db' = db]_vars

\* the root page went through DBVisitor.on_page_end with accepted results
C5_Witness ==
    /\ InCrawl("on_page_end")
    /\ page.is_root
    /\ page.has_results
    /\ page.processed_results # <<>>
    /\ \E i \in received : config.visitors[i] = "DBVisitor"

\* the store has the schema init_db creates
InitDbSchema == ~db.has_hash /\ ~db.has_duplicate_of

\* C6: in a store created by init_db, of two rows holding the same sentence
\* text the first-seen keeps its pipeline status and the later one has
\* status duplicate and duplicate_of equal to the id of the first.
C6_SameTextTwice ==
    InitDbSchema =>
        \A i, j \in RowIds :
            (/\ i < j
             /\ Rows[i].sentence = Rows[j].sentence
             /\ \A k \in 1..(i - 1) : Rows[k].sentence # Rows[i].sentence)
            => /\ Rows[i].status # "duplicate"
               /\ Rows[j].status = "duplicate"
               /\ Rows[j].duplicate_of = i

\* C7: of the rows whose normalized texts are equal, exactly the first-seen
\* is not a duplicate and every later one has status duplicate and
\* duplicate_of equal to the id of the first-seen row.
C7_NearDuplicates ==
    \A i, j \in RowIds :
        (/\ i < j
         /\ _normalize_text(Rows[i].sentence) = _normalize_text(Rows[j].sentence)
         /\ \A k \in 1..(i - 1) :
               _normalize_text(Rows[k].sentence) # _normalize_text(Rows[i].sentence))
        => /\ Rows[i].status # "duplicate"
           /\ Rows[j].status = "duplicate"
           /\ Rows[j].duplicate_of = i

\* C8: failure isolation: an exception of a visitor is caught by _notify;
\* the later visitors still receive the event, the page's remaining events
\* are still broadcast, the link loop still runs and the run ends with
\* on_crawl_end delivered to every visitor.
C8_FailureIsolation ==
    /\ phase # "aborted"
    /\ CurrentEvent # "" => received = 1..(vi - 1)
    /\ \A i \in 1..Len(stack) :
          /\ stack[i].pc = "on_page_process" => stack[i].events = SubSeq(PageEvents, 1, 1)
          /\ stack[i].pc = "on_page_end" => stack[i].events = SubSeq(PageEvents, 1, 2)
          /\ stack[i].pc \in {"loop", "on_link_discovered"} => stack[i].events = PageEvents
    /\ phase = "done" => received = ChainIds

\* a visitor raised during a page broadcast, every visitor after it was still
\* called, and the page has links left to traverse
C8_Witness ==
    /\ InCrawl("on_page_end")
    /\ vi = NVisitors + 1
    /\ received = ChainIds
    /\ \E i \in raised : i < NVisitors
    /\ page.links # <<>>

\* C9: the stop flag is set exactly by an entry of _crawl that finds it unset
\* with pages >= max_pages and sentences >= min_sentences; so the flag
\* implies both thresholds, and the step that sets it builds no Page.
C9_StopIffPredicate ==
    /\ [](stop_triggered =>
            /\ stats.pages >= config.max_pages
            /\ stats.sentences >= config.min_sentences)
    /\ [][(~stop_triggered /\ stop_triggered') =>
            /\ InCrawl("enter")
            /\ stats.pages >= config.max_pages
            /\ stats.sentences >= config.min_sentences
            /\ built' = built
            /\ stats' = stats
            /\ page' = page]_vars
    /\ [][(/\ InCrawl("enter")
           /\ ~stop_triggered
           /\ stats.pages >= config.max_pages
           /\ stats.sentences >= config.min_sentences) => stop_triggered']_vars

\* the flag was set by an entry that met a positive sentence threshold, after
\* an earlier entry had gone on because the sentences were still missing
C9_Witness ==
    /\ stop_triggered
    /\ config.min_sentences > 0
    /\ stats.pages > config.max_pages
    /\ \E r \in pruned : r.why = "stop_set"

\* C10: depth guard: every Page built has 0 <= depth <= config.depth, the
\* root has depth 0, and a child's depth is its parent's depth plus one; the
\* same holds of the current page.
C10_DepthGuard ==
    /\ \A i \in 1..Len(built) :
          /\ 0 <= built[i].depth
          /\ built[i].depth <= config.depth
          /\ built[i].is_root => built[i].depth = 0
          /\ ~built[i].is_root => built[i].depth = built[i].parent_depth + 1
    /\ \A i \in 1..Len(stack) : stack[i].depth = i - 1
    /\ has_page => page.depth <= config.depth
    /\ stats.pages = Len(built)

\* a call at depth config.depth + 1 was turned away by the guard, below a
\* page built at the largest depth allowed
C10_Witness ==
    /\ \E r \in pruned : r.why = "depth" /\ r.depth = config.depth + 1
    /\ \E i \in 1..Len(built) : built[i].depth = config.depth /\ config.depth >= 1

\* C11: once the stop flag is set the traversal only unwinds: no Page is
\* built, stats.pages and stats.links stay as they are, no link is broadcast,
\* no GET is issued and no page or link event is being broadcast; the only
\* event still to come is on_crawl_end.
C11_PrunedAfterStop ==
    /\ [](stop_triggered => CurrentEvent \in {"", "on_crawl_end"})
    /\ [][stop_triggered =>
            /\ built' = built
            /\ stats'.pages = stats.pages
            /\ stats'.links = stats.links
            /\ discovered' = discovered
            /\ fetches' = fetches
            /\ CurrentEvent' \in {"", "on_crawl_end"}]_vars

\* the flag was set below a page under the root, and the unwinding has reached
\* the root's link loop with links of the root still not iterated
C11_Witness ==
    /\ stop_triggered
    /\ InCrawl("loop")
    /\ Len(stack) = 1
    /\ Top.idx <= Len(Top.links)
    /\ Len(built) >= 2
    /\ \E r \in pruned : r.why = "stop_set" /\ r.depth = 2

\* C12: the root page is always processed for link discovery: whether or not
\* its URL has a link row, the root page never carries skip_processing or
\* already_in_db; unless it is excluded a GET is issued for it, and when the
\* GET succeeded the links the parser keeps are the links its loop iterates.
C12_RootAlwaysProcessed ==
    /\ (has_page /\ page.is_root) =>
          page.flags \cap {"skip_processing", "already_in_db"} = {}
    /\ (/\ phase = "crawl"
        /\ Len(stack) = 1
        /\ Top.pc \in {"on_page_end", "loop"}
        /\ page.is_root
        /\ "excluded" \notin page.flags)
       => fetches = <<config.base_url>>
    /\ (/\ InCrawl("loop")
        /\ Len(stack) = 1
        /\ page.is_root
        /\ page.flags \cap {"excluded", "failed"} = {})
       => /\ page.has_text
          /\ Top.links = <<UrlA, UrlOther, UrlB>>

\* the seed has a link row in the store, and the root's loop has gone through
\* a link of the root and come back
C12_Witness ==
    /\ _url_exists(db, config.base_url)
    /\ InCrawl("loop")
    /\ Len(stack) = 1
    /\ Top.idx > 1
    /\ Top.links = <<UrlA, UrlOther, UrlB>>
    /\ \E i \in 1..Len(built) : ~built[i].is_root

\* C13: a page below the root whose URL already has a link row (flag
\* already_in_db) is still traversed for its links: when its link loop
\* begins, a GET has been issued for it, and when that GET succeeded the
\* loop has the links of its document to iterate (every document of the
\* site holds a link the parser keeps).
C13_PersistedPageStillTraversed ==
    (/\ InCrawl("loop")
     /\ Len(stack) > 1
     /\ Top.idx = 1
     /\ page.url = Top.url
     /\ "already_in_db" \in page.flags
     /\ page.flags \cap {"excluded", "duplicate"} = {})
    => /\ \E i \in 1..Len(fetches) : fetches[i] = page.url
       /\ "failed" \notin page.flags => (page.has_text /\ Top.links # <<>>)

\* C14: the writes of DBVisitor.on_page_end for one page are atomic: when the
\* handler ends in an error (the error counter moves, or the handler raises)
\* no sentence row and no domain-mapping row of that page is in the store,
\* and the run goes on.
C14_PageWritesAtomic ==
    [][(/\ InCrawl("on_page_end")
        /\ vi <= NVisitors
        /\ config.visitors[vi] = "DBVisitor"
        /\ (stats'.errors > stats.errors \/ vi \in raised'))
       => /\ db'.sentences = db.sentences
          /\ db'.sentence_domain = db.sentence_domain
          /\ phase' = "crawl"]_vars

\* the domain-mapping rows of sentence row i
MappingsOf(i) ==
    {k \in 1..Len(db.sentence_domain) : db.sentence_domain[k].sentence_id = i}

\* the domain code the pipeline attaches to a row: the classifier's, when the
\* classifier is configured and was reached (PatternRejector ends the chain
\* for a sentence it tags rejected); none otherwise, which maps to misc
ExpectedDomainCode(row) ==
    IF /\ \E k \in 1..Len(config.processors) : config.processors[k] = "DomainClassifier"
       /\ row.status # "rejected"
    THEN DomainClassifier(row.sentence).metadata["domain_code"]
    ELSE "misc"

\* C15: while the core persists pages, every sentence row whose status is not
\* duplicate has exactly one domain-mapping row, to the classifier's domain
\* or to misc when the result carried no domain metadata, and every row
\* inserted as duplicate has no domain-mapping row.
C15_MappingPerNonDuplicate ==
    phase # "backfilled" =>
        \A i \in RowIds :
            IF Rows[i].status # "duplicate"
            THEN /\ Cardinality(MappingsOf(i)) = 1
                 /\ \A k \in MappingsOf(i) :
                       /\ db.sentence_domain[k].domain_id \in 1..Len(db.domain)
                       /\ db.domain[db.sentence_domain[k].domain_id].code =
                              ExpectedDomainCode(Rows[i])
            ELSE MappingsOf(i) = {}

\* the store holds a row mapped to the classifier's domain, a row tagged
\* rejected that fell back to misc, and a duplicate row
C15_Witness ==
    /\ phase = "done"
    /\ \E i \in RowIds : Rows[i].status = "duplicate"
    /\ \E i \in RowIds :
          /\ Rows[i].status = "rejected"
          /\ \E k \in MappingsOf(i) :
                db.domain[db.sentence_domain[k].domain_id].code = "misc"
    /\ \E i \in RowIds :
          /\ Rows[i].status = "new"
          /\ \E k \in MappingsOf(i) :
                db.domain[db.sentence_domain[k].domain_id].code = "sci"

\* C16: in every store state, after persistence by the core and after the
\* backfill script, a row whose duplicate_of is not NULL refers to an
\* existing row with a strictly lower id.
C16_DuplicateOfLowerId ==
    \A i \in RowIds :
        Rows[i].duplicate_of # NullId => Rows[i].duplicate_of \in 1..(i - 1)

\* the backfill script has run on the store of a finished run: a row the core
\* inserted as duplicate and a row the script turned into a duplicate (it
\* still has the domain mapping of its insertion) both point to lower ids
C16_Witness ==
    /\ phase = "backfilled"
    /\ \E i \in RowIds :
          /\ Rows[i].duplicate_of \in 1..(i - 1)
          /\ MappingsOf(i) = {}
    /\ \E i \in RowIds :
          /\ Rows[i].duplicate_of \in 1..(i - 1)
          /\ MappingsOf(i) # {}
          /\ Rows[i].sentence # Rows[Rows[i].duplicate_of].sentence

\* C17: during a run the store changes only in DBVisitor.on_page_end of a page
\* that is not the root, has no link row yet, carries none of the flags
\* already_in_db, skip_processing, excluded, duplicate, failed, and has
\* accepted results; for every other page no link, sentence or domain row is
\* written.
C17_WritesOnlyForEligiblePages ==
    [][(phase = "crawl" /\ db' # db) =>
          /\ InCrawl("on_page_end")
          /\ vi <= NVisitors
          /\ config.visitors[vi] = "DBVisitor"
          /\ ~page.is_root
          /\ ~_url_exists(db, page.url)
          /\ page.flags \cap {"already_in_db", "skip_processing", "excluded",
                              "duplicate", "failed"} = {}
          /\ page.has_results
          /\ page.processed_results # <<>>]_vars

\* a URL visited earlier in the run is reached again below a page that was
\* persisted: its page is flagged duplicate and has gone through on_page_end,
\* and the store holds no link row for it
C17_Witness ==
    /\ InCrawl("on_page_end")
    /\ vi = NVisitors + 1
    /\ ~page.is_root
    /\ "duplicate" \in page.flags
    /\ ~_url_exists(db, page.url)
    /\ Rows # <<>>

\* C18: DBVisitor.on_page_end of a page that is not the root, not skipped
\* and not already persisted inserts exactly one sentence row per accepted
\* result with a non-empty text, the results after a detected duplicate
\* included.
C18_OneRowPerResult ==
    [][(/\ InCrawl("on_page_end")
        /\ vi <= NVisitors
        /\ config.visitors[vi] = "DBVisitor"
        /\ ~page.is_root
        /\ page.flags \cap {"already_in_db", "skip_processing", "excluded",
                            "duplicate", "failed"} = {}
        /\ page.has_results)
       => Len(db'.sentences) = Len(db.sentences) +
             Cardinality({k \in 1..Len(page.processed_results) :
                             Strip(page.processed_results[k].text) # <<>>})]_vars

\* C19: a processor result that is no ProcessorResult is fatal: the step in
\* which SentenceProcessorVisitor raises the TypeError ends the run (the
\* exception leaves _notify and run: phase aborted, no activation of _crawl
\* left), so no later visitor is called and no further page is visited.
C19_ContractViolationFatal ==
    [][(/\ InCrawl("on_page_process")
        /\ vi <= NVisitors
        /\ config.visitors[vi] = "SentenceProcessorVisitor"
        /\ page.flags \cap SkipFlags = {}
        /\ page.has_text_clean
        /\ page.text_clean # <<>>
        /\ ProcessorsRaise(config.processors, page.text_clean, page.is_root))
       => /\ phase' = "aborted"
          /\ stack' = <<>>]_vars

\* the order in which Crawler.run goes through its three statements
PhaseOrder ==
    {<<"on_crawl_start", "crawl">>, <<"crawl", "on_crawl_end">>,
     <<"on_crawl_end", "done">>, <<"done", "backfilled">>}

\* C20: a run with a valid chain is bracketed by one on_crawl_start and one
\* on_crawl_end: while on_crawl_start is broadcast no Page is built, no link
\* broadcast and no GET issued; run goes through its statements once and in
\* order; once on_crawl_end is being broadcast no activation of _crawl is
\* left and no Page, link or GET follows; a run that has not returned is
\* never ended by an exception and always has a next statement to execute,
\* whatever failed before; and a run that has returned has logged the summary
\* and called every visitor with on_crawl_end.
C20_RunBracketed ==
    /\ [](ChainValid(config.visitors) =>
            /\ phase = "on_crawl_start" =>
                  (built = <<>> /\ discovered = <<>> /\ fetches = <<>> /\ stack = <<>>)
            /\ phase \in {"on_crawl_end", "done"} => stack = <<>>
            /\ phase # "aborted"
            /\ phase \notin {"done", "backfilled"} => RunCanStep
            /\ phase = "done" => (summary /\ received = ChainIds))
    /\ [][ChainValid(config.visitors) =>
            /\ phase' # phase => <<phase, phase'>> \in PhaseOrder
            /\ phase \in {"on_crawl_end", "done"} =>
                  (built' = built /\ discovered' = discovered /\ fetches' = fetches)]_vars

\* a run with a valid chain has returned with the summary logged although
\* visitors raised, a persistence write failed (it left a duplicate row) and
\* a GET failed (more errors were counted than persistence writes failed)
C20_Witness ==
    /\ ChainValid(config.visitors)
    /\ phase = "done"
    /\ summary
    /\ stats.errors >= 2
    /\ ever_raised
    /\ \E i \in RowIds : Rows[i].status = "duplicate"
    /\ stats.errors > Cardinality({i \in RowIds : Rows[i].status = "duplicate"})

\* the step that calls FetcherVisitor.on_page_process for the current page
FetcherStep ==
    /\ InCrawl("on_page_process")
    /\ vi <= NVisitors
    /\ config.visitors[vi] = "FetcherVisitor"
    /\ vi' = vi + 1

\* C21: the fetcher issues at most one GET per page visit and never
\* retries: only the fetcher's on_page_process issues a GET; for a page that
\* should be skipped it issues none and stores nothing; else it issues exactly
\* one GET for the page's URL, and either the raw content is stored with
\* flags.failed unset and the error counter unchanged, or flags.failed is set,
\* no raw content is stored and the error counter grows by exactly one.
C21_FetchOnceNoRetry ==
    /\ [](Len(fetches) <= Len(built))
    /\ [][IF FetcherStep
          THEN IF should_skip(page)
               THEN /\ fetches' = fetches
                    /\ page'.text = page.text
                    /\ page'.has_text = page.has_text
                    /\ stats'.errors = stats.errors
               ELSE /\ fetches' = Append(fetches, page.url)
                    /\ \/ /\ page'.has_text
                          /\ page'.text = SiteDoc(page.url)
                          /\ "failed" \notin page'.flags
                          /\ stats'.errors = stats.errors
                       \/ /\ "failed" \in page'.flags
                          /\ ~page'.has_text
                          /\ page'.text = NoDoc
                          /\ stats'.errors = stats.errors + 1
          ELSE fetches' = fetches]_vars

\* the fetcher has handled three page visits: one GET succeeded, the GET of
\* the current page failed and left it without content, and one page was
\* skipped without a GET
C21_Witness ==
    /\ InCrawl("on_page_process")
    /\ vi > 5
    /\ Len(built) = 3
    /\ Len(fetches) = 2
    /\ fetches[2] = page.url
    /\ "failed" \in page.flags
    /\ ~page.has_text
    /\ stats.errors >= 1

\* C22: the review application never takes a sentence into status reviewed
\* while it has no domain mapping: a step that turns a row reviewed finds a
\* mapping row for it, and a bulk update to reviewed that names a sentence
\* without a mapping row is refused and leaves every status as it was.
C22_ReviewedOnlyIfMapped ==
    [][/\ \A i \in 1..Len(db.sentences) :
             (db'.sentences[i].status = "reviewed" /\ db.sentences[i].status # "reviewed")
             => /\ \E k \in 1..Len(db.sentence_domain) :
                      db.sentence_domain[k].sentence_id = i
                /\ \E k \in 1..Len(db'.sentence_domain) :
                      db'.sentence_domain[k].sentence_id = i
       /\ (/\ review'.op = "update_status_bulk"
           /\ review'.status = "reviewed"
           /\ \E i \in review'.ids \cap (1..Len(db.sentences)) :
                 \A k \in 1..Len(db.sentence_domain) :
                     db.sentence_domain[k].sentence_id # i)
          => ~review'.ok /\ db'.sentences = db.sentences]_vars

\* a bulk update to reviewed naming a mapped and an unmapped sentence was
\* refused, after an earlier request had made a mapped row reviewed
C22_Witness ==
    /\ review.op = "update_status_bulk"
    /\ review.status = "reviewed"
    /\ ~review.ok
    /\ Cardinality(review.ids) = 2
    /\ \E i \in review.ids : \E k \in 1..Len(db.sentence_domain) :
          db.sentence_domain[k].sentence_id = i
    /\ \E i \in review.ids \cap (1..Len(db.sentences)) :
          \A k \in 1..Len(db.sentence_domain) : db.sentence_domain[k].sentence_id # i
    /\ \E i \in 1..Len(db.sentences) : db.sentences[i].status = "reviewed"

\* C23: the core is append-only on sentences: no step of a run removes a
\* sentence row or changes the text, status, hash, duplicate_of or link of a
\* row that exists, so no new or rejected row is turned into duplicate
\* afterwards; and every row a step inserts has status new, rejected or
\* duplicate.
C23_AppendOnly ==
    [][phase' # "backfilled" =>
          /\ Len(db'.sentences) >= Len(db.sentences)
          /\ \A i \in 1..Len(db.sentences) : db'.sentences[i] = db.sentences[i]
          /\ \A i \in (Len(db.sentences) + 1)..Len(db'.sentences) :
                db'.sentences[i].status \in {"new", "rejected", "duplicate"}]_vars

\* the run has ended with a row inserted as duplicate of a row of an earlier
\* page that still has its status new, and with a rejected row
C23_Witness ==
    /\ phase = "done"
    /\ \E i, j \in RowIds :
          /\ i < j
          /\ Rows[j].status = "duplicate"
          /\ Rows[j].duplicate_of = i
          /\ Rows[j].link_id # Rows[i].link_id
          /\ Rows[i].status = "new"
          /\ Rows[i].duplicate_of = NullId
    /\ \E i \in RowIds : Rows[i].status = "rejected"

\* C24: the stop predicate is monotone in the counters: with the thresholds
\* fixed and the counters never decreasing, once stop_condition() has
\* returned true every later evaluation returns true, and the same holds for
\* the crawler's predicate pages >= max_pages and sentences >= min_sentences.
C24_StopPredicateMonotone ==
    /\ [](scraper.returned_true => stop_condition(scraper))
    /\ [](scraper.crawl_true => CrawlPredicate(scraper))
    /\ [][/\ scraper'.max_pages = scraper.max_pages
          /\ scraper'.min_sentences = scraper.min_sentences
          /\ scraper'.max_total_links = scraper.max_total_links
          /\ \A k \in DOMAIN scraper.stats : scraper'.stats[k] >= scraper.stats[k]]_vars

\* both predicates returned true at counters that have grown since, past
\* the hard stop, with thresholds that were not met at the start
C24_Witness ==
    /\ scraper.returned_true
    /\ scraper.crawl_true
    /\ scraper.max_pages > 0
    /\ scraper.min_sentences > 0
    /\ scraper.stats.new_links > scraper.max_pages
    /\ scraper.stats.new_links + scraper.stats.skipped_links > scraper.max_total_links
    /\ scraper.stats.sentences > scraper.min_sentences

\* C25: max_total_links is a hard stop on the traversal: once the number of
\* pages visited plus pages skipped (the Pages built) has reached it, no
\* further Page is built, and so none is fetched, whatever the predicate on
\* max_pages and min_sentences says.
C25_MaxTotalLinksHardStop ==
    [][stats.pages >= config.max_total_links =>
          built' = built /\ stats'.pages = stats.pages]_vars

\* C26: event ordering per page: for every Page built, on_page_start, then
\* on_page_process, then on_page_end are broadcast once each; a broadcast
\* calls the visitors one by one in the order of the chain, each once, and
\* the next event begins only when every visitor has been called; the
\* page's links are broadcast as on_link_discovered only after its
\* on_page_end.
C26_PageEventOrder ==
    /\ [](/\ CurrentEvent \in SeqToSet(PageEvents) =>
                vi \in 1..(NVisitors + 1) /\ received = 1..(vi - 1)
          /\ \A i \in 1..Len(stack) :
                stack[i].events =
                    CASE stack[i].pc = "enter"           -> <<>>
                      [] stack[i].pc = "on_page_start"   -> <<>>
                      [] stack[i].pc = "on_page_process" -> SubSeq(PageEvents, 1, 1)
                      [] stack[i].pc = "on_page_end"     -> SubSeq(PageEvents, 1, 2)
                      [] OTHER                           -> PageEvents)
    /\ [][/\ (CurrentEvent \in SeqToSet(PageEvents) /\ received' # received
              /\ CurrentEvent' = CurrentEvent /\ stack' = stack)
             => vi \notin received /\ received' = received \cup {vi} /\ vi' = vi + 1
          /\ (stack # <<>> /\ Len(stack') = Len(stack)
              /\ Top.pc \in SeqToSet(PageEvents) /\ stack'[Len(stack)].pc # Top.pc)
             => received = ChainIds
          /\ discovered' # discovered
             => /\ Top.events = PageEvents
                /\ discovered' = Append(discovered, Top.links[Top.idx])]_vars

\* a page below the seed has had its three events broadcast to every visitor
\* and its first link is being broadcast, while the seed's page waits in its
\* own link loop
C26_Witness ==
    /\ InCrawl("on_link_discovered")
    /\ Len(stack) = 2
    /\ Len(built) = 2
    /\ stack[1].events = PageEvents
    /\ Top.events = PageEvents
    /\ vi = NVisitors + 1
    /\ received = ChainIds

\* C30: balanced-quote repair: for the double-quote group and for the
\* single-quote group on their own, an odd number of quotes of the group
\* loses exactly its last quote and an even number loses none; no other
\* character is removed except surrounding whitespace, and the result has an
\* even number of quotes of either group.
C30_BalancedQuoteRepair ==
    quotes.processed =>
        LET s == quotes.text
            Positions(t, g) == {i \in 1..Len(t) : t[i] \in SeqToSet(g)}
            Removed(g) == IF Cardinality(Positions(s, g)) % 2 = 1
                          THEN {CHOOSE i \in Positions(s, g) :
                                   \A j \in Positions(s, g) : j <= i}
                          ELSE {}
            kept == [i \in 1..Len(s) |->
                        IF i \in Removed(DOUBLE_QUOTES) \cup Removed(SINGLE_QUOTES)
                        THEN <<>> ELSE <<s[i]>>]
            joined[i \in 0..Len(s)] == IF i = 0 THEN <<>> ELSE joined[i - 1] \o kept[i]
        IN  /\ quotes.result = Strip(joined[Len(s)])
            /\ Cardinality(Positions(quotes.result, DOUBLE_QUOTES)) % 2 = 0
            /\ Cardinality(Positions(quotes.result, SINGLE_QUOTES)) % 2 = 0

\* a sentence with three double quotes of two kinds and one single quote was
\* processed: the last double quote and the single quote are gone
C30_Witness ==
    /\ quotes.processed
    /\ quotes.text = <<"\"", "rdquo", "'", "\"">>
    /\ quotes.result = <<"\"", "rdquo">>

\* the results the processors return for a sentence when each is handed the
\* text of the one before it, up to and including the first result that
\* rejects the sentence or tags it rejected
RECURSIVE FilterOutputs(_, _, _)
FilterOutputs(ps, text, is_root) ==
    IF ps = <<>> THEN <<>>
    ELSE IF Process(Head(ps), text, is_root).reject
            \/ Process(Head(ps), text, is_root).status = "rejected"
    THEN <<Process(Head(ps), text, is_root)>>
    ELSE <<Process(Head(ps), text, is_root)>>
         \o FilterOutputs(Tail(ps), Process(Head(ps), text, is_root).text, is_root)

\* C27: reject and status rejected differ: a sentence for which a filter
\* returns reject is dropped, no later filter runs and nothing is emitted
\* or counted; a sentence for which a filter returns status rejected without
\* reject runs no later filter either, and is emitted with status rejected
\* and with the text and metadata gathered up to and including that filter.
C27_RejectVersusRejected ==
    [][(phase = "pipeline" /\ ~page.has_results /\ page'.has_results) =>
        LET ps == config.processors
            outs(s) == FilterOutputs(ps, s, page.is_root)
            last(s) == outs(s)[Len(outs(s))]
            dropped(s) == outs(s) # <<>> /\ last(s).reject
            tagged(s) == outs(s) # <<>> /\ ~last(s).reject /\ last(s).status = "rejected"
            merged(s) == [k \in UNION {DOMAIN outs(s)[i].metadata : i \in 1..Len(outs(s))} |->
                            LET I == {i \in 1..Len(outs(s)) : k \in DOMAIN outs(s)[i].metadata}
                            IN  outs(s)[CHOOSE i \in I : \A j \in I : j <= i].metadata[k]]
            sents == page.text_clean
            results == page'.processed_results
            \* the index in results of the result of sentence i, when it has one
            at(i) == Cardinality({j \in 1..i : ~dropped(sents[j]) /\
                                     (IF outs(sents[j]) = <<>> THEN sents[j]
                                      ELSE last(sents[j]).text) # <<>>})
        IN  /\ Len(results) = at(Len(sents))
            /\ stats'.sentences = stats.sentences + Len(results)
            /\ \A i \in 1..Len(sents) :
                  /\ dropped(sents[i]) => at(i) = at(i - 1)
                  /\ (tagged(sents[i]) /\ last(sents[i]).text # <<>>) =>
                        /\ at(i) = at(i - 1) + 1
                        /\ results[at(i)].status = "rejected"
                        /\ results[at(i)].text = last(sents[i]).text
                        /\ results[at(i)].metadata = merged(sents[i])]_vars

\* a page was processed whose first sentence was dropped by a filter's reject
\* and whose second was tagged rejected by the filter after the classifier,
\* so that the quote filter behind it did not run: the one result has the
\* classifier's metadata and still has its unmatched quote
C27_Witness ==
    /\ phase = "pipeline"
    /\ page.has_results
    /\ config.processors = <<"TruncatedSentenceFilter", "DomainClassifier",
                             "PatternRejector", "BalancedQuotesFilter">>
    /\ page.text_clean = << <<"a", ".", ".">>, <<"\"", "c", "d">> >>
    /\ Len(page.processed_results) = 1
    /\ page.processed_results[1].text = <<"\"", "c", "d">>
    /\ page.processed_results[1].status = "rejected"
    /\ "domain_code" \in DOMAIN page.processed_results[1].metadata
    /\ stats.sentences = 2


\* C28: a result is emitted for a sentence exactly when the sentence was not
\* discarded and its text after the filters is not empty; the result's status
\* is the last status adopted from a filter, or new when none was set; after
\* on_page_process page.sentences and page.sentence_statuses are as long as
\* page.processed_results and agree with it index by index, and
\* stats.sentences has grown by that length.
C28_EmittedResults ==
    [][(phase = "pipeline" /\ ~page.has_results /\ page'.has_results) =>
        LET outs(s) == FilterOutputs(config.processors, s, page.is_root)
            discarded(s) == \E i \in 1..Len(outs(s)) : outs(s)[i].reject
            \* the results the loop adopted
            adopted(s) == SelectSeq(outs(s), LAMBDA r : ~r.reject)
            text(s) == IF adopted(s) = <<>> THEN s
                       ELSE adopted(s)[Len(adopted(s))].text
            set(s) == SelectSeq(adopted(s), LAMBDA r : r.status # "")
            status(s) == IF set(s) = <<>> THEN "new"
                         ELSE set(s)[Len(set(s))].status
            emitted(s) == ~discarded(s) /\ text(s) # <<>>
            sents == page.text_clean
            results == page'.processed_results
            Emitted == {i \in 1..Len(sents) : emitted(sents[i])}
            \* the sentence behind the k-th result
            origin(k) == CHOOSE i \in Emitted :
                            Cardinality({j \in Emitted : j <= i}) = k
        IN  /\ Len(results) = Cardinality(Emitted)
            /\ \A k \in 1..Len(results) :
                  /\ results[k].text = text(sents[origin(k)])
                  /\ results[k].status = status(sents[origin(k)])
            /\ Len(page'.sentences) = Len(results)
            /\ Len(page'.sentence_statuses) = Len(results)
            /\ \A k \in 1..Len(results) :
                  /\ page'.sentences[k] = results[k].text
                  /\ page'.sentence_statuses[k] = results[k].status
            /\ stats'.sentences = stats.sentences + Len(results)]_vars

\* a page was processed whose first sentence, a lone quote, was emptied by
\* the quote filter and not emitted, and whose second was emitted with the
\* status new on top of a count that was not zero
C28_Witness ==
    /\ phase = "pipeline"
    /\ page.has_results
    /\ config.processors = <<"BalancedQuotesFilter">>
    /\ page.text_clean = << <<"\"">>, T1 >>
    /\ page.processed_results = << [text |-> T1, status |-> "new",
                                    metadata |-> EmptyMeta] >>
    /\ page.sentences = <<T1>>
    /\ page.sentence_statuses = <<"new">>
    /\ stats.sentences = 2


\* C29: link rows are unique per URL and inserted idempotently before the
\* sentences that refer to them: whatever pages were persisted, no two link
\* rows hold the same URL and every sentence row's link_id is the id of a
\* link row; a call of on_page_end that reaches links.insert for a URL that
\* has a row adds no link row and uses the id the URL had, for a new URL it
\* appends one row; and the sentence rows the call inserts refer to the link
\* row of the page's URL.
C29_LinkRows ==
    /\ [](\A i, j \in 1..Len(db.links) : db.links[i] = db.links[j] => i = j)
    /\ [](\A i \in RowIds : Rows[i].link_id \in 1..Len(db.links))
    /\ [][(phase = "persist" /\ vi = 1 /\ vi' = 2) =>
            /\ \A i \in 1..Len(db.links) : db'.links[i] = db.links[i]
            /\ (db' # db /\ _url_exists(db, page.url)) =>
                  /\ db'.links = db.links
                  /\ LinkId(db', page.url) = LinkId(db, page.url)
            /\ (db' # db /\ ~_url_exists(db, page.url)) =>
                  db'.links = Append(db.links, page.url)
            /\ db' = db => "already_in_db" \in page.flags
            /\ Len(db'.sentences) >= Len(db.sentences)
            /\ \A i \in (Len(db.sentences) + 1)..Len(db'.sentences) :
                  /\ db'.sentences[i].link_id \in 1..Len(db'.links)
                  /\ db'.links[db'.sentences[i].link_id] = page.url]_vars

\* three pages were persisted, the first and the third of the same URL:
\* the store holds one link row for each of the two URLs, and sentence rows
\* of the first URL on both sides of a row of the second
C29_Witness ==
    /\ phase = "persist"
    /\ vi = 2
    /\ db.links = <<UrlA, UrlB>>
    /\ \E i, j, k \in RowIds :
          /\ i < j /\ j < k
          /\ Rows[i].link_id = 1
          /\ Rows[j].link_id = 2
          /\ Rows[k].link_id = 1


\* C31: the domain classifier never changes or rejects the sentence and
\* always produces domain metadata: the domain is the first entry of the
\* table, in its order, one of whose keywords occurs in the lower-cased
\* sentence; when no entry matches, also when the table is empty or could
\* not be loaded, the result is the misc domain with confidence 0.
C31_ClassifierResult ==
    (phase = "classifier" /\ quotes.processed) =>
        LET r == quotes.result
            rules == quotes.rules
            hit(i) == \E k \in 1..Len(rules[i].keywords) :
                         \E p \in 1..Len(quotes.text) :
                            LowerChar(quotes.text[p]) = rules[i].keywords[k]
        IN  /\ r.text = quotes.text
            /\ ~r.reject
            /\ r.status # "rejected"
            /\ "domain_code" \in DOMAIN r.metadata
            /\ \A i \in 1..Len(rules) :
                  (hit(i) /\ \A j \in 1..(i - 1) : ~hit(j)) =>
                      r.metadata["domain_code"] = rules[i].code
            /\ (\A i \in 1..Len(rules) : ~hit(i)) =>
                  /\ r.metadata["domain_code"] = "misc"
                  /\ "confidence" \in DOMAIN r.metadata
                  /\ r.metadata["confidence"] = "0.0"


\* C32: with the URL tracker in the chain each URL is fetched at most once
\* in a run, wherever the tracker stands relative to the fetcher: the
\* tracker's on_page_start adds a URL it sees for the first time to
\* context.visited and flags the page of a URL it has seen as duplicate; the
\* page of a later visit is not fetched, not parsed and adds no links and no
\* sentences; context.visited only grows.
C32_FetchedOncePerRun ==
    /\ [](\A i, j \in 1..Len(fetches) : fetches[i] = fetches[j] => i = j)
    /\ []("duplicate" \in page.flags =>
            /\ ~page.has_text
            /\ ~page.has_text_clean
            /\ page.links = <<>>
            /\ page.sentences = <<>>
            /\ page.has_results => page.processed_results = <<>>)
    /\ [][/\ visited \subseteq visited'
          /\ (/\ InCrawl("on_page_start")
              /\ vi <= NVisitors
              /\ config.visitors[vi] = "URLTrackerVisitor"
              /\ vi' = vi + 1) =>
                IF page.url \in visited
                THEN /\ "duplicate" \in page'.flags
                     /\ visited' = visited
                ELSE /\ "duplicate" \notin page'.flags
                     /\ visited' = visited \cup {page.url}
          /\ (/\ phase = "crawl" /\ stack # <<>>
              /\ Top.pc \in {"on_page_process", "on_page_end"}
              /\ "duplicate" \in page.flags) =>
                /\ fetches' = fetches
                /\ stats'.sentences = stats.sentences
                /\ stats'.links = stats.links
                /\ db' = db]_vars

\* with the tracker last in the chain the crawl came back to the seed from a
\* page below it: the second Page of the seed's URL went through its three
\* events flagged duplicate, and the URL was fetched once
C32_Witness ==
    /\ config.visitors = TrackerLastChain
    /\ InCrawl("on_page_end")
    /\ vi = NVisitors + 1
    /\ "duplicate" \in page.flags
    /\ page.url = RootUrl
    /\ Cardinality({i \in 1..Len(built) : built[i].url = RootUrl}) = 2
    /\ Cardinality({i \in 1..Len(fetches) : fetches[i] = RootUrl}) = 1
    /\ RootUrl \in visited


\* The number of steps a run has left at most, a variant of Crawler.run.
\* A broadcast takes one step for each visitor and one for the statement
\* after it; an activation of _crawl at depth d takes CrawlCost(d) steps at
\* most, LoopCost(n, d) of them for a link loop with n links left.
MaxLinks ==
    LET S == {Len(SiteDoc(u).hrefs) : u \in {RootUrl, UrlA, UrlB, UrlOther}}
    IN  CHOOSE n \in S : \A m \in S : m <= n
BroadcastCost == NVisitors + 1
RECURSIVE CrawlCost(_)
LoopCost(n, d) == n * (1 + BroadcastCost + CrawlCost(d + 1)) + 1
CrawlCost(d) ==
    IF d > config.depth THEN 1
    ELSE 1 + 3 * BroadcastCost + LoopCost(MaxLinks, d)
FrameRank(f, v) ==
    CASE f.pc = "enter" -> CrawlCost(f.depth)
      [] f.pc = "on_page_start" ->
            (BroadcastCost - v + 1) + 2 * BroadcastCost + LoopCost(MaxLinks, f.depth)
      [] f.pc = "on_page_process" ->
            (BroadcastCost - v + 1) + BroadcastCost + LoopCost(MaxLinks, f.depth)
      [] f.pc = "on_page_end" ->
            (BroadcastCost - v + 1) + LoopCost(MaxLinks, f.depth)
      [] f.pc = "loop" -> LoopCost(Len(f.links) - f.idx + 1, f.depth)
      [] f.pc = "on_link_discovered" ->
            (BroadcastCost - v + 1) + CrawlCost(f.depth + 1)
            + LoopCost(Len(f.links) - f.idx, f.depth)
RECURSIVE StackRank(_)
StackRank(n) ==
    IF n = 0 THEN 0
    ELSE FrameRank(stack[n], IF n = Len(stack) THEN vi ELSE 1) + StackRank(n - 1)
RunRank ==
    CASE phase = "on_crawl_start" ->
            (BroadcastCost - vi + 1) + CrawlCost(0) + BroadcastCost + 1
      [] phase = "crawl" -> StackRank(Len(stack)) + BroadcastCost + 1
      [] phase = "on_crawl_end" -> (BroadcastCost - vi + 1) + 1
      [] phase = "done" -> 1
      [] OTHER -> 0

\* C33: Crawler.run terminates and reaches on_crawl_end for every depth
\* limit and every setting of max_pages and min_sentences, also a
\* min_sentences that is never reached, on a site whose links form cycles:
\* a run that has not returned always has a next statement, every step
\* lowers a natural number, run returns only from the on_crawl_end broadcast,
\* and the activations of _crawl never nest deeper than depth + 2.
C33_RunTerminates ==
    /\ [](Len(stack) <= config.depth + 2)
    /\ [](RunRank \in Nat)
    /\ [](phase \notin {"done", "backfilled"} => RunCanStep)
    /\ [][RunRank' < RunRank]_vars
    /\ [][phase' = "done" => (phase = "on_crawl_end" /\ vi = NVisitors + 1)]_vars

\* a run has returned although min_sentences was never reached: it came back
\* to a URL it had visited, built a Page at the depth limit and pruned the
\* call below it, and depth + 2 activations were nested on the way
C33_Witness ==
    /\ phase = "done"
    /\ config.depth = MaxDepthCfg
    /\ stats.sentences < config.min_sentences
    /\ \E i, j \in 1..Len(built) : i < j /\ built[i].url = built[j].url
    /\ \E i \in 1..Len(built) : built[i].depth = config.depth
    /\ "depth" \in {p.why : p \in pruned}


\* C34: stats.pages is the number of Pages built so far and never decreases;
\* a Page is built only in a call of _crawl that found stats.pages below
\* max_pages or stats.sentences below min_sentences on entry; so with
\* min_sentences <= 0, or once the sentence threshold is met, stats.pages
\* does not pass max_pages, and with max_pages = 0 and min_sentences = 0 not
\* even the seed is visited.
C34_PageCountBound ==
    /\ [](stats.pages = Len(built))
    /\ [](config.min_sentences <= 0 => stats.pages <= config.max_pages)
    /\ []((config.max_pages = 0 /\ config.min_sentences = 0) =>
            (built = <<>> /\ fetches = <<>> /\ visited = {}))
    /\ [][/\ stats'.pages >= stats.pages
          /\ built' # built =>
                /\ InCrawl("enter")
                /\ Len(built') = Len(built) + 1
                /\ \/ stats.pages < config.max_pages
                   \/ stats.sentences < config.min_sentences
                /\ stats.sentences >= config.min_sentences =>
                      stats'.pages <= config.max_pages]_vars

\* with min_sentences = 0 and max_pages = 2 the run built two Pages, set the
\* stop flag at the entry of the third call of _crawl and has returned
C34_Witness ==
    /\ phase = "done"
    /\ config.min_sentences = 0
    /\ config.max_pages = 2
    /\ config.depth = MaxDepthCfg
    /\ stats.pages = 2
    /\ Len(built) = 2
    /\ stop_triggered
    /\ "stop_set" \in {p.why : p \in pruned}


\* C35: while the links of a page are iterated the context's current page
\* is that page: whenever on_link_discovered is broadcast for a link of the
\* page of an activation of _crawl, also for a link that comes after a link
\* that was recursed into, context.page is the Page that activation built.
C35_CurrentPageInLinkLoop ==
    InCrawl("on_link_discovered") =>
        /\ has_page
        /\ page.url = Top.url
        /\ page.depth = Top.depth
        /\ page.is_root = Top.is_root


\* C36: the sentence stage and the persistence stage keep their protocol:
\* with SentenceProcessorVisitor before DBVisitor in the chain every page
\* carries processed_results once on_page_process is over, an empty list
\* when the page is skipped or has no cleaned text, so DBVisitor.on_page_end
\* never raises its error for a missing processed_results.
C36_ResultsAlwaysAttached ==
    LET pos(v) == CHOOSE i \in 1..NVisitors : config.visitors[i] = v
    IN  (/\ InCrawl("on_page_end")
         /\ pos("SentenceProcessorVisitor") < pos("DBVisitor")
         /\ ~ProcessorsRaise(config.processors, page.text_clean, page.is_root))
        => /\ page.has_results
           /\ (should_skip(page) \/ ~page.has_text_clean \/ page.text_clean = <<>>)
                 => page.processed_results = <<>>
           /\ \A i \in 1..(vi - 1) :
                 config.visitors[i] = "DBVisitor" => i \notin raised


\* C37: the error counter counts the failed fetches and the pages whose
\* persistence write failed, nothing else: a failed GET adds exactly one, and
\* no other step moves the counter (no INSERT of a run fails here), neither
\* for a page that is skipped, nor for a page whose sentences are all
\* stored, nor when a duplicate sentence is detected.
C37_ErrorsCountFailures ==
    [][IF FetcherStep /\ ~should_skip(page) /\ "failed" \in page'.flags
       THEN stats'.errors = stats.errors + 1
       ELSE stats'.errors = stats.errors]_vars


\* C38: links are compared as extracted, without resolution against the
\* page's URL: a relative link, which starts with "/" and has no authority,
\* is kept by the parser, counted and broadcast as on_link_discovered but
\* never recursed into; only absolute http or https links with exactly the
\* page's authority produce a recursive visit.
C38_OnlyAbsoluteLinksVisited ==
    /\ stats.links = Len(discovered)
    /\ \A i \in 2..Len(stack) :
          /\ UrlScheme(stack[i].url) \in {"http:", "https:"}
          /\ Netloc(stack[i].url) = Netloc(stack[i - 1].url)
    /\ \A i \in 1..Len(built) :
          ~built[i].is_root =>
              /\ UrlScheme(built[i].url) \in {"http:", "https:"}
              /\ Netloc(built[i].url) = Netloc(built[i].parent)


\* C39: whatever requests the review application has served on the store
\* the core filled, no sentence row is in status reviewed while it has no
\* domain-mapping row.
C39_ReviewedImpliesMapped ==
    \A i \in 1..Len(db.sentences) :
        db.sentences[i].status = "reviewed" =>
            \E k \in 1..Len(db.sentence_domain) :
                /\ db.sentence_domain[k].sentence_id = i
                /\ db.sentence_domain[k].domain_id # NullId

====
